---- MODULE Spec2Model ----
(***************************************************************************)
(* lightscan: the pipelined producer/consumer engine of                    *)
(* src/lightscan/main.cpp.  One main thread per node (rank 0 is the master *)
(* dispatcher, the others request work from it), LOAD_WORKERS_PER_NODE     *)
(* load threads and GPUS_PER_NODE evaluate threads per node, and a pool of *)
(* TASKS_IN_QUEUE_PER_GPU frame buffers per GPU that circulates between    *)
(* the two worker classes through the node's queues.                       *)
(***************************************************************************)
EXTENDS Integers, Sequences, FiniteSets, TLC

VARIABLES
  num_nodes,                  \* MPI_Comm_size
  GPUS_PER_NODE,              \* the tuning globals, set once by the command line
  TASKS_IN_QUEUE_PER_GPU,
  LOAD_WORKERS_PER_NODE,
  GLOBAL_BATCH_SIZE,
  BATCHES_PER_WORK_ITEM,
  video_metadata,             \* per video: its VideoMetadata (frames, width, height)
  work_items,                 \* the planner's list, the same on every node
  load_work,                  \* [node -> queue of work item indices, -1 the sentinel]
  empty_load_buffers,         \* [node -> queue of LoadBufferEntry]
  eval_work,                  \* [node -> [gpu -> queue of EvalWorkEntry]]
  gpu_frame_buffers,          \* [node -> [gpu -> [buffer -> work item whose frames it holds]]]
  load_pc,                    \* [node -> [load thread -> position]]
  load_work_entry,            \* [node -> [load thread -> popped work item index]]
  buffer_entry,               \* [node -> [load thread -> popped LoadBufferEntry]]
  eval_pc,                    \* [node -> [gpu -> position]]
  work_entry,                 \* [node -> [gpu -> popped EvalWorkEntry]]
  main_pc,                    \* [node -> position of the main thread]
  local_work,                 \* [node -> the backlog the main thread is summing]
  loop_i,                     \* [node -> index of the main thread's current for loop]
  next_item,                  \* [node -> the int last received (remote) or to send (master)]
  next_work_item_to_allocate, \* master
  workers_done,               \* master
  status_source,              \* master: status.MPI_SOURCE of the last receive
  requests,                   \* [node -> "more work" messages in flight to the master]
  replies,                    \* [node -> queue of the master's replies in flight]
  pushed,                     \* history: [node -> [work item -> times pushed into load_work]]
  evaluated,                  \* history: [node -> [work item -> times evaluated]]
  reply_log,                  \* history: [node -> replies the master sent it, in order]
  request_log,                \* history: [node -> requests the master received from it]
  argv,                       \* the command line: which options are given
  processed_files,            \* storage: [video -> its processed file exists]
  mpi_started,                \* [node -> startup() has run]
  all_preprocessed,           \* [node -> the flag of main's preprocessing check]
  threads_created,            \* [node -> the load and evaluate threads exist]
  exit_code,                  \* [node -> <<>> or <<the value main returned>>]
  preprocessed_by,            \* history: the <<rank, video>> the preprocessor ran for
  HARDWARE_DECODE,            \* the build: hardware (TRUE) or software decode
  frame_pc,                   \* position of the frame-level run of one work item
  work_item,                  \* the VideoWorkItem of that run
  current_frame,              \* the loop variable of the decode and evaluate loops
  frame_writes,               \* history: per decoded frame, the bytes written
  forward_passes,             \* history: per net->Forward, the frames passed
  data_blob,                  \* shape(0) of the net's input blob "data"
  previous_pass               \* history: the last pass of the work item before

config_vars == <<num_nodes, GPUS_PER_NODE, TASKS_IN_QUEUE_PER_GPU,
                 LOAD_WORKERS_PER_NODE, GLOBAL_BATCH_SIZE, BATCHES_PER_WORK_ITEM,
                 video_metadata, work_items>>
queue_vars == <<load_work, empty_load_buffers, eval_work>>
load_vars == <<load_pc, load_work_entry, buffer_entry>>
eval_vars == <<eval_pc, work_entry>>
main_vars == <<main_pc, local_work, loop_i, next_item>>
master_vars == <<next_work_item_to_allocate, workers_done, status_source>>
mpi_vars == <<requests, replies>>
history_vars == <<pushed, evaluated, reply_log, request_log>>
process_vars == <<argv, processed_files, mpi_started, all_preprocessed,
                  threads_created, exit_code, preprocessed_by>>
frame_vars == <<HARDWARE_DECODE, frame_pc, work_item, current_frame, frame_writes,
                forward_passes, data_blob, previous_pass>>

vars == <<config_vars, queue_vars, gpu_frame_buffers, load_vars, eval_vars,
          main_vars, master_vars, mpi_vars, history_vars, process_vars, frame_vars>>

(***************************************************************************)
(* Bounds of the model.                                                    *)
(***************************************************************************)
MaxNodes == 2
MaxGpus == 2
MaxTasks == 2
MaxLoadWorkers == 2
MaxFrames == 3
MaxSize == 7
MaxBatchSize == 3
MaxBatches == 2
MaxVideoFrames == 5
MaxDim == 2
MaxItems == 4

(***************************************************************************)
(* Constants and helpers.                                                  *)
(***************************************************************************)
SENTINEL == -1

EXIT_SUCCESS == 0

NoEntry == [work_item_index |-> -2, buffer_index |-> -2, gpu_device_id |-> -2]

NoWorkItem == [video_index |-> -2, start_frame |-> -2, end_frame |-> -2]

\* Mutant: the first argument, whatever the second.
MinFirst(a, b) == a

Min(a, b) == IF a < b THEN a ELSE b

is_master(rank) == rank = 0

\* Mutant: a work item is one batch.
frames_per_work_item_batch(batch_size, batches) == batch_size

frames_per_work_item(batch_size, batches) == batch_size * batches

Nodes == 0 .. (num_nodes - 1)
Remotes == Nodes \ {0}
Gpus == 0 .. (GPUS_PER_NODE - 1)
Buffers == 0 .. (TASKS_IN_QUEUE_PER_GPU - 1)
LoadThreads == 0 .. (LOAD_WORKERS_PER_NODE - 1)
WorkItemIndices == 0 .. (Len(work_items) - 1)

\* Queue<T>: FIFO, push at the back, a blocking pop at the front.
Push(q, e) == Append(q, e)
Front(q) == Head(q)
Pop(q) == Tail(q)
Size(q) == Len(q)

\* The work planner: each video in index order, split into ranges of at most
\* WORK_ITEM_SIZE frames.
RECURSIVE VideoWorkItems(_, _, _, _)
VideoWorkItems(i, frames, allocated_frames, WORK_ITEM_SIZE) ==
  IF allocated_frames < frames
  THEN LET frames_to_allocate == Min(WORK_ITEM_SIZE, frames - allocated_frames)
       IN  <<[video_index |-> i,
              start_frame |-> allocated_frames,
              end_frame   |-> allocated_frames + frames_to_allocate]>>
           \o VideoWorkItems(i, frames, allocated_frames + frames_to_allocate,
                             WORK_ITEM_SIZE)
  ELSE <<>>

RECURSIVE PlanFrom(_, _, _)
PlanFrom(i, metadata, WORK_ITEM_SIZE) ==
  IF i > Len(metadata) THEN <<>>
  ELSE VideoWorkItems(i - 1, metadata[i].frames, 0, WORK_ITEM_SIZE)
       \o PlanFrom(i + 1, metadata, WORK_ITEM_SIZE)

PlanWorkItems(metadata, WORK_ITEM_SIZE) == PlanFrom(1, metadata, WORK_ITEM_SIZE)

\* The buffer pool: every identity (gpu, i) pre-enqueued, gpu-major.
RECURSIVE InitialBuffers(_, _, _, _)
InitialBuffers(gpu, i, gpus, LOAD_BUFFERS) ==
  IF gpu >= gpus THEN <<>>
  ELSE IF i >= LOAD_BUFFERS THEN InitialBuffers(gpu + 1, 0, gpus, LOAD_BUFFERS)
  ELSE <<[gpu_device_id |-> gpu, buffer_index |-> i]>>
       \o InitialBuffers(gpu, i + 1, gpus, LOAD_BUFFERS)

\* The high-water mark of a node's backlog.
HighWater == GPUS_PER_NODE * TASKS_IN_QUEUE_PER_GPU

(***************************************************************************)
(* Initial state: the run right after the worker threads are created.      *)
(***************************************************************************)
\* The runs explored: the cluster's worker threads plus the frames to process
\* stay within MaxSize.
Configs ==
  { c \in [nodes : 1 .. MaxNodes, gpus : 1 .. MaxGpus, tasks : 1 .. MaxTasks,
           loaders : 1 .. MaxLoadWorkers, frames : 0 .. MaxFrames] :
      c.nodes * (c.loaders + c.gpus) + c.frames <= MaxSize }

\* The command line's tuning options and the videos.
ConfigInit(c, batch_size, batches, metadata) ==
  /\ num_nodes = c.nodes
  /\ GPUS_PER_NODE = c.gpus
  /\ TASKS_IN_QUEUE_PER_GPU = c.tasks
  /\ LOAD_WORKERS_PER_NODE = c.loaders
  /\ GLOBAL_BATCH_SIZE = batch_size
  /\ BATCHES_PER_WORK_ITEM = batches
  /\ video_metadata = metadata

\* The queues, the buffer pool and the worker threads of every node as main
\* sets them up; pc is where the main threads stand.
NodesInit(c, pc) ==
  /\ load_work = [n \in 0 .. (c.nodes - 1) |-> <<>>]
  /\ empty_load_buffers =
       [n \in 0 .. (c.nodes - 1) |-> InitialBuffers(0, 0, c.gpus, c.tasks)]
  /\ eval_work = [n \in 0 .. (c.nodes - 1) |-> [g \in 0 .. (c.gpus - 1) |-> <<>>]]
  /\ gpu_frame_buffers =
       [n \in 0 .. (c.nodes - 1) |->
          [g \in 0 .. (c.gpus - 1) |-> [b \in 0 .. (c.tasks - 1) |-> -2]]]
  /\ load_pc = [n \in 0 .. (c.nodes - 1) |-> [l \in 0 .. (c.loaders - 1) |-> "pop_work"]]
  /\ load_work_entry = [n \in 0 .. (c.nodes - 1) |-> [l \in 0 .. (c.loaders - 1) |-> -2]]
  /\ buffer_entry = [n \in 0 .. (c.nodes - 1) |-> [l \in 0 .. (c.loaders - 1) |-> NoEntry]]
  /\ eval_pc = [n \in 0 .. (c.nodes - 1) |-> [g \in 0 .. (c.gpus - 1) |-> "pop"]]
  /\ work_entry = [n \in 0 .. (c.nodes - 1) |-> [g \in 0 .. (c.gpus - 1) |-> NoEntry]]
  /\ main_pc = [n \in 0 .. (c.nodes - 1) |-> pc]
  /\ local_work = [n \in 0 .. (c.nodes - 1) |-> 0]
  /\ loop_i = [n \in 0 .. (c.nodes - 1) |-> 0]
  /\ next_item = [n \in 0 .. (c.nodes - 1) |-> -2]
  /\ next_work_item_to_allocate = 0
  /\ workers_done = 0
  /\ status_source = 0
  /\ requests = [n \in 0 .. (c.nodes - 1) |-> 0]
  /\ replies = [n \in 0 .. (c.nodes - 1) |-> <<>>]
  /\ pushed = [n \in 0 .. (c.nodes - 1) |-> [w \in 0 .. (Len(work_items) - 1) |-> 0]]
  /\ evaluated = [n \in 0 .. (c.nodes - 1) |-> [w \in 0 .. (Len(work_items) - 1) |-> 0]]
  /\ reply_log = [n \in 0 .. (c.nodes - 1) |-> <<>>]
  /\ request_log = [n \in 0 .. (c.nodes - 1) |-> 0]

\* Every process is past its start: options parsed, MPI up, every video
\* preprocessed, the threads created.
ProcessesRunning(c, metadata) ==
  /\ argv = [help |-> FALSE, video_paths_file |-> TRUE]
  /\ processed_files = [v \in 1 .. Len(metadata) |-> TRUE]
  /\ mpi_started = [n \in 0 .. (c.nodes - 1) |-> TRUE]
  /\ all_preprocessed = [n \in 0 .. (c.nodes - 1) |-> TRUE]
  /\ threads_created = [n \in 0 .. (c.nodes - 1) |-> TRUE]
  /\ exit_code = [n \in 0 .. (c.nodes - 1) |-> <<>>]
  /\ preprocessed_by = {}

\* No frame-level run.
FramesIdle ==
  /\ HARDWARE_DECODE = TRUE
  /\ frame_pc = "idle"
  /\ work_item = NoWorkItem
  /\ current_frame = 0
  /\ frame_writes = <<>>
  /\ forward_passes = <<>>
  /\ data_blob = GLOBAL_BATCH_SIZE
  /\ previous_pass = <<>>

InitWith(c, batch_size, batches, metadata) ==
  /\ ConfigInit(c, batch_size, batches, metadata)
  /\ work_items = PlanWorkItems(metadata, frames_per_work_item(batch_size, batches))
  /\ NodesInit(c, "check")
  /\ ProcessesRunning(c, metadata)
  /\ FramesIdle

\* The VideoMetadata of a video of the given length, its frames 2 by 2 pixels.
VideoOf(frames) == [frames |-> frames, width |-> 2, height |-> 2]

Init == \E c \in Configs : InitWith(c, 1, 1, <<VideoOf(c.frames)>>)

\* The run of two nodes with one GPU each over two videos of 8 and 6 frames, in
\* work items of 4 frames.
\* work items of 4 frames, with the default queue depth and load threads or
\* with one of each.
DefaultTasks == 4
DefaultLoadWorkers == 2

ScenarioConfigs ==
  {[nodes |-> 2, gpus |-> 1, tasks |-> DefaultTasks, loaders |-> DefaultLoadWorkers,
    frames |-> 14],
   [nodes |-> 2, gpus |-> 1, tasks |-> 1, loaders |-> 1, frames |-> 14]}

ScenarioInit ==
  \E c \in ScenarioConfigs : InitWith(c, 2, 2, <<VideoOf(8), VideoOf(6)>>)

(***************************************************************************)
(* load_video_thread                                                       *)
(***************************************************************************)
\* args.load_work.pop(load_work_entry); a sentinel ends the thread.
LoadPopWork(n, l) ==
  /\ load_pc[n][l] = "pop_work"
  /\ Size(load_work[n]) > 0
  /\ load_work' = [load_work EXCEPT ![n] = Pop(@)]
  /\ load_work_entry' = [load_work_entry EXCEPT ![n][l] = Front(load_work[n])]
  /\ load_pc' = [load_pc EXCEPT ![n][l] =
                   IF Front(load_work[n]) = SENTINEL THEN "done" ELSE "pop_buffer"]
  /\ UNCHANGED <<config_vars, process_vars, frame_vars, empty_load_buffers, eval_work, gpu_frame_buffers,
                 buffer_entry, eval_vars, main_vars, master_vars, mpi_vars,
                 history_vars>>

\* args.empty_load_buffers.pop(buffer_entry)
LoadPopBuffer(n, l) ==
  /\ load_pc[n][l] = "pop_buffer"
  /\ Size(empty_load_buffers[n]) > 0
  /\ empty_load_buffers' = [empty_load_buffers EXCEPT ![n] = Pop(@)]
  /\ buffer_entry' = [buffer_entry EXCEPT ![n][l] = Front(empty_load_buffers[n])]
  /\ load_pc' = [load_pc EXCEPT ![n][l] = "decode"]
  /\ UNCHANGED <<config_vars, process_vars, frame_vars, load_work, eval_work, gpu_frame_buffers,
                 load_work_entry, eval_vars, main_vars, master_vars, mpi_vars,
                 history_vars>>

\* Mutant: the decode loop writes buffer 0 of the GPU whatever buffer it popped.
LoadTargetBufferFirst(n, l) == <<buffer_entry[n][l].gpu_device_id, 0>>

\* The buffer the decode loop writes: gpu_frame_buffers[gpu_device_id][buffer_index].
LoadTargetBuffer(n, l) ==
  <<buffer_entry[n][l].gpu_device_id, buffer_entry[n][l].buffer_index>>

\* The decode loop: the frames of the work item go into the buffer.
LoadDecode(n, l) ==
  /\ load_pc[n][l] = "decode"
  /\ LET t == LoadTargetBuffer(n, l)
     IN  gpu_frame_buffers' =
           [gpu_frame_buffers EXCEPT ![n][t[1]][t[2]] = load_work_entry[n][l]]
  /\ load_pc' = [load_pc EXCEPT ![n][l] = "push"]
  /\ UNCHANGED <<config_vars, process_vars, frame_vars, queue_vars, load_work_entry, buffer_entry, eval_vars,
                 main_vars, master_vars, mpi_vars, history_vars>>

\* Mutant: every filled buffer is announced on the queue of GPU 0.
LoadTargetQueueFirst(n, l) == 0

\* The queue the filled buffer is announced on: eval_work[buffer_entry.gpu_device_id].
LoadTargetQueue(n, l) == buffer_entry[n][l].gpu_device_id

\* The EvalWorkEntry the load thread builds.  gpu_device_id is not a field of
\* the struct: it records which GPU owns the buffer the entry names.
LoadEvalWorkEntry(n, l) ==
  [work_item_index |-> load_work_entry[n][l],
   buffer_index    |-> buffer_entry[n][l].buffer_index,
   gpu_device_id   |-> buffer_entry[n][l].gpu_device_id]

\* args.eval_work[buffer_entry.gpu_device_id].push(eval_work_entry)
LoadPushEval(n, l) ==
  /\ load_pc[n][l] = "push"
  /\ eval_work' = [eval_work EXCEPT ![n][LoadTargetQueue(n, l)] =
                     Push(@, LoadEvalWorkEntry(n, l))]
  /\ load_pc' = [load_pc EXCEPT ![n][l] = "pop_work"]
  /\ load_work_entry' = [load_work_entry EXCEPT ![n][l] = -2]
  /\ buffer_entry' = [buffer_entry EXCEPT ![n][l] = NoEntry]
  /\ UNCHANGED <<config_vars, process_vars, frame_vars, load_work, empty_load_buffers, gpu_frame_buffers,
                 eval_vars, main_vars, master_vars, mpi_vars, history_vars>>


load_video_thread(n, l) ==
  \/ LoadPopWork(n, l)
  \/ LoadPopBuffer(n, l)
  \/ LoadDecode(n, l)
  \/ LoadPushEval(n, l)

(***************************************************************************)
(* evaluate_thread                                                         *)
(***************************************************************************)
\* args.eval_work.pop(work_entry); a sentinel ends the thread.
EvalPop(n, g) ==
  /\ eval_pc[n][g] = "pop"
  /\ Size(eval_work[n][g]) > 0
  /\ eval_work' = [eval_work EXCEPT ![n][g] = Pop(@)]
  /\ work_entry' = [work_entry EXCEPT ![n][g] = Front(eval_work[n][g])]
  /\ eval_pc' = [eval_pc EXCEPT ![n][g] =
                   IF Front(eval_work[n][g]).work_item_index = SENTINEL
                   THEN "done" ELSE "forward"]
  /\ UNCHANGED <<config_vars, process_vars, frame_vars, load_work, empty_load_buffers, gpu_frame_buffers,
                 load_vars, main_vars, master_vars, mpi_vars, history_vars>>

\* args.frame_buffers of the evaluate thread of GPU g is gpu_frame_buffers[g];
\* the buffer it reads is frame_buffers[work_entry.buffer_index].
EvalSourceBuffer(n, g) == <<g, work_entry[n][g].buffer_index>>

\* The batches of the work item are preprocessed from the buffer and passed
\* through the network.
EvalForward(n, g) ==
  /\ eval_pc[n][g] = "forward"
  /\ evaluated' = [evaluated EXCEPT ![n][work_entry[n][g].work_item_index] = @ + 1]
  /\ eval_pc' = [eval_pc EXCEPT ![n][g] = "release"]
  /\ UNCHANGED <<config_vars, process_vars, frame_vars, queue_vars, gpu_frame_buffers, load_vars, work_entry,
                 main_vars, master_vars, mpi_vars, pushed, reply_log, request_log>>

\* Mutant: the evaluate thread hands back buffer 0 whatever it held.
EvalEmptyBufferEntryFirst(n, g) == [gpu_device_id |-> g, buffer_index |-> 0]

\* The LoadBufferEntry the evaluate thread hands back.
EvalEmptyBufferEntry(n, g) ==
  [gpu_device_id |-> g, buffer_index |-> work_entry[n][g].buffer_index]

\* args.empty_load_buffers.push(empty_buffer_entry)
EvalRelease(n, g) ==
  /\ eval_pc[n][g] = "release"
  /\ empty_load_buffers' =
       [empty_load_buffers EXCEPT ![n] = Push(@, EvalEmptyBufferEntry(n, g))]
  /\ eval_pc' = [eval_pc EXCEPT ![n][g] = "pop"]
  /\ work_entry' = [work_entry EXCEPT ![n][g] = NoEntry]
  /\ UNCHANGED <<config_vars, process_vars, frame_vars, load_work, eval_work, gpu_frame_buffers, load_vars,
                 main_vars, master_vars, mpi_vars, history_vars>>

evaluate_thread(n, g) ==
  \/ EvalPop(n, g)
  \/ EvalForward(n, g)
  \/ EvalRelease(n, g)

(***************************************************************************)
(* main: the master's dispatch loop (rank 0)                               *)
(***************************************************************************)
\* Mutant: the dispatch loop runs one index too far.
MasterLoopConditionInclusive == next_work_item_to_allocate <= Len(work_items)

\* Mutant: the dispatch loop stops one index early.
MasterLoopConditionShort == next_work_item_to_allocate + 1 < Len(work_items)

\* while (next_work_item_to_allocate < work_items.size())
MasterLoopCondition == next_work_item_to_allocate < Len(work_items)

\* Mutant: there is no high-water mark, any backlog counts as low.
BelowHighWaterAlways(lw) == TRUE

\* Mutant: a backlog equal to the high-water mark still counts as low.
BelowHighWaterInclusive(lw) == lw <= HighWater

\* local_work < GPUS_PER_NODE * TASKS_IN_QUEUE_PER_GPU
BelowHighWater(lw) == lw < HighWater

\* Mutant: the sentinel-reply loop stops one node early.
MoreWorkersShort(done) == done + 1 < num_nodes

\* while (workers_done < num_nodes)
MoreWorkers(done) == done < num_nodes

\* Top of the dispatch loop: the loop test, then local_work = load_work.size().
\* When the loop ends, workers_done = 1 and the sentinel loop is tested.
MasterCheck ==
  /\ main_pc[0] = "check"
  /\ IF MasterLoopCondition
     THEN /\ local_work' = [local_work EXCEPT ![0] = Size(load_work[0])]
          /\ main_pc' = [main_pc EXCEPT ![0] = "sum"]
          /\ UNCHANGED workers_done
     ELSE /\ workers_done' = 1
          /\ main_pc' = [main_pc EXCEPT ![0] =
                           IF MoreWorkers(1) THEN "s_recv" ELSE "load_sentinels"]
          /\ UNCHANGED local_work
  /\ loop_i' = [loop_i EXCEPT ![0] = 0]
  /\ UNCHANGED <<config_vars, process_vars, frame_vars, queue_vars, gpu_frame_buffers, load_vars, eval_vars,
                 next_item, next_work_item_to_allocate, status_source, mpi_vars,
                 history_vars>>

\* Mutant: the master serves a remote request before it looks at its own backlog.
MasterBranchRemoteFirst(lw) ==
  IF num_nodes > 1 THEN "recv"
  ELSE IF BelowHighWater(lw) THEN "assign" ELSE "check"

\* Mutant: a saturated master waits in MPI_Recv whatever the number of nodes.
MasterBranchAlwaysRecv(lw) == IF BelowHighWater(lw) THEN "assign" ELSE "recv"

\* Mutant: the master self-assigns in every iteration.
MasterBranchAssignAlways(lw) == "assign"

\* Mutant: the two branches are swapped, a low backlog serves a remote node.
MasterBranchSwapped(lw) ==
  IF BelowHighWater(lw) THEN (IF num_nodes > 1 THEN "recv" ELSE "check")
  ELSE "assign"

\* Where the master goes once local_work is summed: self-assign, serve a
\* remote request, or (a single node) yield and poll again.
MasterBranch(lw) ==
  IF BelowHighWater(lw) THEN "assign"
  ELSE IF num_nodes > 1 THEN "recv" ELSE "check"

\* local_work += eval_work[i].size(), one queue per step.
MasterSumEvalWork ==
  /\ main_pc[0] = "sum"
  /\ LET lw == local_work[0] + Size(eval_work[0][loop_i[0]])
         more == loop_i[0] + 1 < GPUS_PER_NODE
     IN  /\ main_pc' = [main_pc EXCEPT ![0] = IF more THEN "sum" ELSE MasterBranch(lw)]
         /\ loop_i' = [loop_i EXCEPT ![0] = IF more THEN @ + 1 ELSE 0]
         /\ local_work' = [local_work EXCEPT ![0] =
                             IF ~more /\ MasterBranch(lw) = "check" THEN 0 ELSE lw]
  /\ UNCHANGED <<config_vars, process_vars, frame_vars, queue_vars, gpu_frame_buffers, load_vars, eval_vars,
                 next_item, master_vars, mpi_vars, history_vars>>

\* entry.work_item_index = next_work_item_to_allocate++; load_work.push(entry)
MasterSelfAssign ==
  /\ main_pc[0] = "assign"
  /\ load_work' = [load_work EXCEPT ![0] = Push(@, next_work_item_to_allocate)]
  /\ pushed' = [pushed EXCEPT ![0][next_work_item_to_allocate] = @ + 1]
  /\ next_work_item_to_allocate' = next_work_item_to_allocate + 1
  /\ main_pc' = [main_pc EXCEPT ![0] = "check"]
  /\ local_work' = [local_work EXCEPT ![0] = 0]
  /\ UNCHANGED <<config_vars, process_vars, frame_vars, empty_load_buffers, eval_work, gpu_frame_buffers,
                 load_vars, eval_vars, loop_i, next_item, workers_done,
                 status_source, mpi_vars, evaluated, reply_log, request_log>>

\* Mutant: the index sent to a remote node is not consumed.
NextAfterReplyKept(next) == next

\* next_item = next_work_item_to_allocate++ : the counter after the reply index
\* is taken.
NextAfterReply(next) == next + 1

\* MPI_Recv(MPI_ANY_SOURCE); next_item = next_work_item_to_allocate++
MasterRecv ==
  /\ main_pc[0] = "recv"
  /\ \E r \in Remotes :
       /\ requests[r] > 0
       /\ requests' = [requests EXCEPT ![r] = @ - 1]
       /\ request_log' = [request_log EXCEPT ![r] = @ + 1]
       /\ status_source' = r
  /\ next_item' = [next_item EXCEPT ![0] = next_work_item_to_allocate]
  /\ next_work_item_to_allocate' = NextAfterReply(next_work_item_to_allocate)
  /\ main_pc' = [main_pc EXCEPT ![0] = "send"]
  /\ UNCHANGED <<config_vars, process_vars, frame_vars, queue_vars, gpu_frame_buffers, load_vars, eval_vars,
                 local_work, loop_i, workers_done, replies, pushed, evaluated,
                 reply_log>>

\* MPI_Send(&next_item, status.MPI_SOURCE)
MasterSend ==
  /\ main_pc[0] = "send"
  /\ replies' = [replies EXCEPT ![status_source] = Append(@, next_item[0])]
  /\ reply_log' = [reply_log EXCEPT ![status_source] = Append(@, next_item[0])]
  /\ main_pc' = [main_pc EXCEPT ![0] = "check"]
  /\ local_work' = [local_work EXCEPT ![0] = 0]
  /\ next_item' = [next_item EXCEPT ![0] = -2]
  /\ status_source' = 0
  /\ UNCHANGED <<config_vars, process_vars, frame_vars, queue_vars, gpu_frame_buffers, load_vars, eval_vars,
                 loop_i, next_work_item_to_allocate, workers_done, requests, pushed,
                 evaluated, request_log>>

\* while (workers_done < num_nodes): MPI_Recv(MPI_ANY_SOURCE); next_item = -1
MasterSentinelRecv ==
  /\ main_pc[0] = "s_recv"
  /\ \E r \in Remotes :
       /\ requests[r] > 0
       /\ requests' = [requests EXCEPT ![r] = @ - 1]
       /\ request_log' = [request_log EXCEPT ![r] = @ + 1]
       /\ status_source' = r
  /\ next_item' = [next_item EXCEPT ![0] = SENTINEL]
  /\ main_pc' = [main_pc EXCEPT ![0] = "s_send"]
  /\ UNCHANGED <<config_vars, process_vars, frame_vars, queue_vars, gpu_frame_buffers, load_vars, eval_vars,
                 local_work, loop_i, next_work_item_to_allocate, workers_done,
                 replies, pushed, evaluated, reply_log>>

\* MPI_Send(&next_item, status.MPI_SOURCE); workers_done += 1
MasterSentinelSend ==
  /\ main_pc[0] = "s_send"
  /\ replies' = [replies EXCEPT ![status_source] = Append(@, next_item[0])]
  /\ reply_log' = [reply_log EXCEPT ![status_source] = Append(@, next_item[0])]
  /\ workers_done' = workers_done + 1
  /\ main_pc' = [main_pc EXCEPT ![0] =
                   IF MoreWorkers(workers_done + 1) THEN "s_recv" ELSE "load_sentinels"]
  /\ loop_i' = [loop_i EXCEPT ![0] = 0]
  /\ next_item' = [next_item EXCEPT ![0] = -2]
  /\ status_source' = 0
  /\ UNCHANGED <<config_vars, process_vars, frame_vars, queue_vars, gpu_frame_buffers, load_vars, eval_vars,
                 local_work, next_work_item_to_allocate, requests, pushed, evaluated,
                 request_log>>

(***************************************************************************)
(* main: the request loop of a non-master node                             *)
(***************************************************************************)
\* Top of while (true): local_work = load_work.size()
RemoteCheck(n) ==
  /\ ~is_master(n)
  /\ main_pc[n] = "check"
  /\ local_work' = [local_work EXCEPT ![n] = Size(load_work[n])]
  /\ loop_i' = [loop_i EXCEPT ![n] = 0]
  /\ main_pc' = [main_pc EXCEPT ![n] = "sum"]
  /\ UNCHANGED <<config_vars, process_vars, frame_vars, queue_vars, gpu_frame_buffers, load_vars, eval_vars,
                 next_item, master_vars, mpi_vars, history_vars>>

\* Where a remote goes once local_work is summed: request work, or yield.
RemoteBranch(lw) == IF BelowHighWater(lw) THEN "request" ELSE "check"

\* local_work += eval_work[i].size(), one queue per step.
RemoteSumEvalWork(n) ==
  /\ ~is_master(n)
  /\ main_pc[n] = "sum"
  /\ LET lw == local_work[n] + Size(eval_work[n][loop_i[n]])
         more == loop_i[n] + 1 < GPUS_PER_NODE
     IN  /\ main_pc' = [main_pc EXCEPT ![n] = IF more THEN "sum" ELSE RemoteBranch(lw)]
         /\ loop_i' = [loop_i EXCEPT ![n] = IF more THEN @ + 1 ELSE 0]
         /\ local_work' = [local_work EXCEPT ![n] =
                             IF ~more /\ RemoteBranch(lw) = "check" THEN 0 ELSE lw]
  /\ UNCHANGED <<config_vars, process_vars, frame_vars, queue_vars, gpu_frame_buffers, load_vars, eval_vars,
                 next_item, master_vars, mpi_vars, history_vars>>

\* MPI_Send(&more_work, 0)
RemoteRequest(n) ==
  /\ ~is_master(n)
  /\ main_pc[n] = "request"
  /\ requests' = [requests EXCEPT ![n] = @ + 1]
  /\ main_pc' = [main_pc EXCEPT ![n] = "await"]
  /\ UNCHANGED <<config_vars, process_vars, frame_vars, queue_vars, gpu_frame_buffers, load_vars, eval_vars,
                 local_work, loop_i, next_item, master_vars, replies, history_vars>>

\* MPI_Recv(&next_item, 0); -1 leaves the loop
RemoteReceive(n) ==
  /\ ~is_master(n)
  /\ main_pc[n] = "await"
  /\ Len(replies[n]) > 0
  /\ next_item' = [next_item EXCEPT ![n] =
                     IF Head(replies[n]) = SENTINEL THEN -2 ELSE Head(replies[n])]
  /\ local_work' = [local_work EXCEPT ![n] =
                      IF Head(replies[n]) = SENTINEL THEN 0 ELSE @]
  /\ replies' = [replies EXCEPT ![n] = Tail(@)]
  /\ main_pc' = [main_pc EXCEPT ![n] =
                   IF Head(replies[n]) = SENTINEL THEN "load_sentinels" ELSE "push"]
  /\ loop_i' = [loop_i EXCEPT ![n] = 0]
  /\ UNCHANGED <<config_vars, process_vars, frame_vars, queue_vars, gpu_frame_buffers, load_vars, eval_vars,
                 master_vars, requests, history_vars>>

\* entry.work_item_index = next_item; load_work.push(entry)
RemotePush(n) ==
  /\ ~is_master(n)
  /\ main_pc[n] = "push"
  /\ load_work' = [load_work EXCEPT ![n] = Push(@, next_item[n])]
  /\ pushed' = [pushed EXCEPT ![n][next_item[n]] = @ + 1]
  /\ main_pc' = [main_pc EXCEPT ![n] = "check"]
  /\ local_work' = [local_work EXCEPT ![n] = 0]
  /\ next_item' = [next_item EXCEPT ![n] = -2]
  /\ UNCHANGED <<config_vars, process_vars, frame_vars, empty_load_buffers, eval_work, gpu_frame_buffers,
                 load_vars, eval_vars, loop_i, master_vars, mpi_vars, evaluated,
                 reply_log, request_log>>

(***************************************************************************)
(* main: teardown, the same on every node                                  *)
(***************************************************************************)
\* Mutant: one load sentinel too many.
MoreLoadSentinelsExtra(i) == i < LOAD_WORKERS_PER_NODE

\* Mutant: one load sentinel too few.
MoreLoadSentinelsShort(i) == i + 2 < LOAD_WORKERS_PER_NODE

\* i < LOAD_WORKERS_PER_NODE after ++i: another load sentinel follows.
MoreLoadSentinels(i) == i + 1 < LOAD_WORKERS_PER_NODE

\* for (i < LOAD_WORKERS_PER_NODE) load_work.push({-1})
PushLoadSentinel(n) ==
  /\ main_pc[n] = "load_sentinels"
  /\ load_work' = [load_work EXCEPT ![n] = Push(@, SENTINEL)]
  /\ loop_i' = [loop_i EXCEPT ![n] = IF MoreLoadSentinels(loop_i[n]) THEN @ + 1 ELSE 0]
  /\ main_pc' = [main_pc EXCEPT ![n] =
                   IF MoreLoadSentinels(loop_i[n]) THEN "load_sentinels" ELSE "join_load"]
  /\ UNCHANGED <<config_vars, process_vars, frame_vars, empty_load_buffers, eval_work, gpu_frame_buffers,
                 load_vars, eval_vars, local_work, next_item, master_vars, mpi_vars,
                 history_vars>>

\* Mutant: the eval sentinels are pushed without waiting for the load threads.
LoadThreadsJoinedNoWait(n) == TRUE

\* Mutant: main goes on as soon as one load thread has exited.
LoadThreadsJoinedAny(n) == \E l \in LoadThreads : load_pc[n][l] = "done"

\* pthread_join of every load thread
LoadThreadsJoined(n) == \A l \in LoadThreads : load_pc[n][l] = "done"

JoinLoadThreads(n) ==
  /\ main_pc[n] = "join_load"
  /\ LoadThreadsJoined(n)
  /\ loop_i' = [loop_i EXCEPT ![n] = 0]
  /\ main_pc' = [main_pc EXCEPT ![n] = "eval_sentinels"]
  /\ UNCHANGED <<config_vars, process_vars, frame_vars, queue_vars, gpu_frame_buffers, load_vars, eval_vars,
                 local_work, next_item, master_vars, mpi_vars, history_vars>>

\* The sentinel EvalWorkEntry: only work_item_index is set.
EvalSentinelEntry ==
  [work_item_index |-> SENTINEL, buffer_index |-> -2, gpu_device_id |-> -2]

\* for (i < GPUS_PER_NODE) eval_work[i].push({-1})
PushEvalSentinel(n) ==
  /\ main_pc[n] = "eval_sentinels"
  /\ eval_work' = [eval_work EXCEPT ![n][loop_i[n]] = Push(@, EvalSentinelEntry)]
  /\ loop_i' = [loop_i EXCEPT ![n] = IF loop_i[n] + 1 < GPUS_PER_NODE THEN @ + 1 ELSE 0]
  /\ main_pc' = [main_pc EXCEPT ![n] =
                   IF loop_i[n] + 1 < GPUS_PER_NODE THEN "eval_sentinels" ELSE "join_eval"]
  /\ UNCHANGED <<config_vars, process_vars, frame_vars, load_work, empty_load_buffers, gpu_frame_buffers,
                 load_vars, eval_vars, local_work, next_item, master_vars, mpi_vars,
                 history_vars>>

\* Mutant: main frees the buffers without waiting for the evaluate threads.
EvalThreadsJoinedNoWait(n) == TRUE

\* pthread_join of every evaluate thread
EvalThreadsJoined(n) == \A g \in Gpus : eval_pc[n][g] = "done"

JoinEvalThreads(n) ==
  /\ main_pc[n] = "join_eval"
  /\ EvalThreadsJoined(n)
  /\ main_pc' = [main_pc EXCEPT ![n] = "free"]
  /\ UNCHANGED <<config_vars, process_vars, frame_vars, queue_vars, gpu_frame_buffers, load_vars, eval_vars,
                 local_work, loop_i, next_item, master_vars, mpi_vars, history_vars>>

\* The frame buffers are freed, shutdown() runs and main returns EXIT_SUCCESS.
FreeBuffers(n) ==
  /\ main_pc[n] = "free"
  /\ main_pc' = [main_pc EXCEPT ![n] = "done"]
  /\ exit_code' = [exit_code EXCEPT ![n] = <<EXIT_SUCCESS>>]
  /\ UNCHANGED <<config_vars, frame_vars, queue_vars, gpu_frame_buffers, load_vars,
                 eval_vars, local_work, loop_i, next_item, master_vars, mpi_vars,
                 history_vars, argv, processed_files, mpi_started, all_preprocessed,
                 threads_created, preprocessed_by>>

(***************************************************************************)
(* The specification.                                                      *)
(***************************************************************************)
Next ==
  \/ \E n \in Nodes : \E l \in LoadThreads : LoadPopWork(n, l)
  \/ \E n \in Nodes : \E l \in LoadThreads : LoadPopBuffer(n, l)
  \/ \E n \in Nodes : \E l \in LoadThreads : LoadDecode(n, l)
  \/ \E n \in Nodes : \E l \in LoadThreads : LoadPushEval(n, l)
  \/ \E n \in Nodes : \E g \in Gpus : EvalPop(n, g)
  \/ \E n \in Nodes : \E g \in Gpus : EvalForward(n, g)
  \/ \E n \in Nodes : \E g \in Gpus : EvalRelease(n, g)
  \/ MasterCheck
  \/ MasterSumEvalWork
  \/ MasterSelfAssign
  \/ MasterRecv
  \/ MasterSend
  \/ MasterSentinelRecv
  \/ MasterSentinelSend
  \/ \E n \in Nodes : RemoteCheck(n)
  \/ \E n \in Nodes : RemoteSumEvalWork(n)
  \/ \E n \in Nodes : RemoteRequest(n)
  \/ \E n \in Nodes : RemoteReceive(n)
  \/ \E n \in Nodes : RemotePush(n)
  \/ \E n \in Nodes : PushLoadSentinel(n)
  \/ \E n \in Nodes : JoinLoadThreads(n)
  \/ \E n \in Nodes : PushEvalSentinel(n)
  \/ \E n \in Nodes : JoinEvalThreads(n)
  \/ \E n \in Nodes : FreeBuffers(n)

Spec == Init /\ [][Next]_vars

\* The threads, for the scheduler's fairness: every thread that can take a step
\* eventually takes one.
LoadThread(n, l) ==
  /\ n \in Nodes
  /\ l \in LoadThreads
  /\ load_video_thread(n, l)

EvalThread(n, g) ==
  /\ n \in Nodes
  /\ g \in Gpus
  /\ evaluate_thread(n, g)

MainThread(n) ==
  /\ n \in Nodes
  /\ \/ is_master(n) /\ (MasterCheck \/ MasterSumEvalWork \/ MasterSelfAssign
                           \/ MasterRecv \/ MasterSend \/ MasterSentinelRecv
                           \/ MasterSentinelSend)
     \/ RemoteCheck(n) \/ RemoteSumEvalWork(n) \/ RemoteRequest(n)
     \/ RemoteReceive(n) \/ RemotePush(n)
     \/ PushLoadSentinel(n) \/ JoinLoadThreads(n) \/ PushEvalSentinel(n)
     \/ JoinEvalThreads(n) \/ FreeBuffers(n)

Fairness ==
  \A n \in 0 .. (MaxNodes - 1) :
    /\ WF_vars(MainThread(n))
    /\ \A l \in 0 .. (MaxLoadWorkers - 1) : WF_vars(LoadThread(n, l))
    /\ \A g \in 0 .. (MaxGpus - 1) : WF_vars(EvalThread(n, g))

FairSpec == Spec /\ Fairness

ScenarioSpec == ScenarioInit /\ [][Next]_vars

\* Runs with more work items than a node can have in flight: a single node,
\* or a master and one remote node, each with one GPU, one buffer and one load
\* thread.
BacklogNodes == {1, 2}

BacklogInit ==
  \E nodes \in BacklogNodes :
    InitWith([nodes |-> nodes, gpus |-> 1, tasks |-> 1, loaders |-> 1,
              frames |-> MaxItems],
             1, 1, <<VideoOf(MaxItems)>>)

BacklogSpec == BacklogInit /\ [][Next]_vars

(***************************************************************************)
(* main from its first line: the command line, startup(), the              *)
(* preprocessing check, and then either the run or the way out.            *)
(***************************************************************************)
\* Mutant: --help is not looked at.
ParseOutcomeHelpIgnored(args) ==
  IF ~args.video_paths_file THEN "throw" ELSE "startup"

\* po::notify throws required_option when --video_paths_file is missing; the
\* handler returns 1 if --help is given and rethrows otherwise.  Without a
\* throw, --help returns 1.
ParseOutcome(args) ==
  IF ~args.video_paths_file
  THEN IF args.help THEN "return_1" ELSE "throw"
  ELSE IF args.help THEN "return_1" ELSE "startup"

\* The option parsing block of main.  The rethrown exception leaves main
\* uncaught: the process is terminated, main returns nothing.
ParseOptions(n) ==
  /\ main_pc[n] = "parse"
  /\ main_pc' = [main_pc EXCEPT ![n] =
                   CASE ParseOutcome(argv) = "return_1" -> "done"
                     [] ParseOutcome(argv) = "throw" -> "terminated"
                     [] OTHER -> "startup"]
  /\ exit_code' = [exit_code EXCEPT ![n] =
                     IF ParseOutcome(argv) = "return_1" THEN <<1>> ELSE @]
  /\ UNCHANGED <<config_vars, frame_vars, queue_vars, gpu_frame_buffers, load_vars,
                 eval_vars, local_work, loop_i, next_item, master_vars, mpi_vars,
                 history_vars, argv, processed_files, mpi_started, all_preprocessed,
                 threads_created, preprocessed_by>>

\* startup(argc, argv), the video paths are read, all_preprocessed = true
Startup(n) ==
  /\ main_pc[n] = "startup"
  /\ mpi_started' = [mpi_started EXCEPT ![n] = TRUE]
  /\ all_preprocessed' = [all_preprocessed EXCEPT ![n] = TRUE]
  /\ loop_i' = [loop_i EXCEPT ![n] = 0]
  /\ main_pc' = [main_pc EXCEPT ![n] = "check_video"]
  /\ UNCHANGED <<config_vars, frame_vars, queue_vars, gpu_frame_buffers, load_vars,
                 eval_vars, local_work, next_item, master_vars, mpi_vars,
                 history_vars, argv, processed_files, threads_created, exit_code,
                 preprocessed_by>>

\* storage->get_file_info(processed_video_path(path)): does the file exist.
get_file_info(v) == processed_files[v]

\* One turn of for (path : video_paths): a missing processed file clears
\* all_preprocessed, and the master preprocesses the video, which writes the
\* processed file.
CheckVideo(n) ==
  /\ main_pc[n] = "check_video"
  /\ loop_i[n] < Len(video_metadata)
  /\ LET v == loop_i[n] + 1
     IN  IF ~get_file_info(v)
         THEN /\ all_preprocessed' = [all_preprocessed EXCEPT ![n] = FALSE]
              /\ IF is_master(n)
                 THEN /\ processed_files' = [processed_files EXCEPT ![v] = TRUE]
                      /\ preprocessed_by' = preprocessed_by \cup {<<n, v>>}
                 ELSE UNCHANGED <<processed_files, preprocessed_by>>
         ELSE UNCHANGED <<all_preprocessed, processed_files, preprocessed_by>>
  /\ loop_i' = [loop_i EXCEPT ![n] = @ + 1]
  /\ UNCHANGED <<config_vars, frame_vars, queue_vars, gpu_frame_buffers, load_vars,
                 eval_vars, main_pc, local_work, next_item, master_vars, mpi_vars,
                 history_vars, argv, mpi_started, threads_created, exit_code>>

\* if (all_preprocessed): the metadata, the work items, the queues, the
\* buffers and the threads are set up and the node starts dispatching.
SetUpRun(n) ==
  /\ main_pc[n] = "check_video"
  /\ ~(loop_i[n] < Len(video_metadata))
  /\ all_preprocessed[n]
  /\ threads_created' = [threads_created EXCEPT ![n] = TRUE]
  /\ loop_i' = [loop_i EXCEPT ![n] = 0]
  /\ main_pc' = [main_pc EXCEPT ![n] = "check"]
  /\ UNCHANGED <<config_vars, frame_vars, queue_vars, gpu_frame_buffers, load_vars,
                 eval_vars, local_work, next_item, master_vars, mpi_vars,
                 history_vars, argv, processed_files, mpi_started, all_preprocessed,
                 exit_code, preprocessed_by>>

\* Not all_preprocessed: cleanup, shutdown(), return EXIT_SUCCESS.
SkipRun(n) ==
  /\ main_pc[n] = "check_video"
  /\ ~(loop_i[n] < Len(video_metadata))
  /\ ~all_preprocessed[n]
  /\ exit_code' = [exit_code EXCEPT ![n] = <<EXIT_SUCCESS>>]
  /\ loop_i' = [loop_i EXCEPT ![n] = 0]
  /\ main_pc' = [main_pc EXCEPT ![n] = "done"]
  /\ UNCHANGED <<config_vars, frame_vars, queue_vars, gpu_frame_buffers, load_vars,
                 eval_vars, local_work, next_item, master_vars, mpi_vars,
                 history_vars, argv, processed_files, mpi_started, all_preprocessed,
                 threads_created, preprocessed_by>>

\* The processes as mpirun starts them: the same command line on one or two
\* nodes, videos of one frame each, any of their processed files there.
StartInit ==
  \E c \in Configs :
    LET metadata == [v \in 1 .. c.frames |-> VideoOf(1)]
    IN  /\ c.gpus = 1 /\ c.tasks = 1 /\ c.loaders = 1 /\ c.frames >= 1
        /\ ConfigInit(c, 1, 1, metadata)
        /\ work_items = PlanWorkItems(metadata, frames_per_work_item(1, 1))
        /\ NodesInit(c, "parse")
        /\ argv \in [help : BOOLEAN, video_paths_file : BOOLEAN]
        /\ processed_files \in [1 .. c.frames -> BOOLEAN]
        /\ mpi_started = [n \in 0 .. (c.nodes - 1) |-> FALSE]
        /\ all_preprocessed = [n \in 0 .. (c.nodes - 1) |-> TRUE]
        /\ threads_created = [n \in 0 .. (c.nodes - 1) |-> FALSE]
        /\ exit_code = [n \in 0 .. (c.nodes - 1) |-> <<>>]
        /\ preprocessed_by = {}
        /\ FramesIdle

StartNext ==
  \/ \E n \in Nodes : ParseOptions(n)
  \/ \E n \in Nodes : Startup(n)
  \/ \E n \in Nodes : CheckVideo(n)
  \/ \E n \in Nodes : SetUpRun(n)
  \/ \E n \in Nodes : SkipRun(n)
  \/ Next

StartSpec == StartInit /\ [][StartNext]_vars

(***************************************************************************)
(* One work item at the level of its frames: the planner, the decode loop  *)
(* of load_video_thread and the batch loops of evaluate_thread, run one    *)
(* after the other on a single node.                                       *)
(***************************************************************************)
CeilHalf(x) == (x + 1) \div 2

\* av_image_get_buffer_size(pix_fmt, width, height, 1): the bytes of an image,
\* for NV12 a luma plane and a half-resolution plane of chroma pairs, for
\* RGB24 three bytes per pixel.
av_image_get_buffer_size(pix_fmt, width, height) ==
  IF pix_fmt = "NV12"
  THEN width * height + 2 * CeilHalf(width) * CeilHalf(height)
  ELSE 3 * width * height

\* frame_size = av_image_get_buffer_size(AV_PIX_FMT_NV12, width, height, 1)
frame_size(metadata) ==
  av_image_get_buffer_size("NV12", metadata.width, metadata.height)

\* Mutant: the buffers hold one batch, not one work item.
frame_buffer_size_batch(metadata, batch_size, batches) ==
  frame_size(metadata[1]) * batch_size

\* frame_buffer_size = frame_size * frames_per_work_item(), frame_size that of
\* video_metadata[0].
frame_buffer_size(metadata, batch_size, batches) ==
  frame_size(metadata[1]) * frames_per_work_item(batch_size, batches)

\* cudaMemcpy2D(dst, dpitch, src, spitch, width, height): the bytes [lo, hi)
\* it writes, height rows of width bytes, dpitch apart.
cudaMemcpy2D(dst, dpitch, width, height) ==
  [lo |-> dst, hi |-> dst + (height - 1) * dpitch + width]

\* The hardware path: for (i < 2) a copy of frame->height rows of frame->width
\* bytes to current_frame_buffer_pos + i * width * height.
HardwareFrameCopy(pos, metadata) ==
  LET plane(i) == cudaMemcpy2D(pos + i * metadata.width * metadata.height,
                               metadata.width, metadata.width, metadata.height)
  IN  [lo |-> plane(0).lo, hi |-> plane(1).hi]

\* The software path: av_image_copy_to_buffer writes an RGB24 image of the
\* frame at the buffer position.
convert_av_frame_to_rgb(pos, metadata) ==
  [lo |-> pos,
   hi |-> pos + av_image_get_buffer_size("RGB24", metadata.width, metadata.height)]

\* The bytes of the frame buffer one decoded frame is stored into.
StoreFrame(pos, metadata) ==
  IF HARDWARE_DECODE THEN HardwareFrameCopy(pos, metadata)
  ELSE convert_av_frame_to_rgb(pos, metadata)

\* The inputs of the frame-level runs: one or two videos, the second with the
\* frame of the first or a wider one.
FrameVideos ==
  LET first == [frames : 0 .. MaxVideoFrames, width : 1 .. MaxDim, height : 1 .. MaxDim]
  IN  {<<v>> : v \in first}
      \cup {<<v, [frames |-> f, width |-> v.width + d, height |-> v.height]>> :
              v \in first, f \in 0 .. MaxVideoFrames, d \in 0 .. 1}

FrameInit ==
  \E batch_size \in 1 .. MaxBatchSize : \E batches \in 1 .. MaxBatches :
  \E metadata \in FrameVideos :
    LET c == [nodes |-> 1, gpus |-> 1, tasks |-> 1, loaders |-> 1, frames |-> 0]
    IN  /\ Len(metadata) = 2 => metadata[1].frames + metadata[2].frames <= MaxVideoFrames
        /\ ConfigInit(c, batch_size, batches, metadata)
        /\ work_items = <<>>
        /\ NodesInit(c, "plan")
        /\ ProcessesRunning(c, metadata)
        /\ HARDWARE_DECODE \in BOOLEAN
        /\ frame_pc = "plan"
        /\ work_item = NoWorkItem
        /\ current_frame = 0
        /\ frame_writes = <<>>
        /\ forward_passes = <<>>
        /\ data_blob \in 1 .. MaxBatchSize
        /\ previous_pass = <<>>

frame_others == <<num_nodes, GPUS_PER_NODE, TASKS_IN_QUEUE_PER_GPU,
                  LOAD_WORKERS_PER_NODE, GLOBAL_BATCH_SIZE, BATCHES_PER_WORK_ITEM,
                  video_metadata, queue_vars, gpu_frame_buffers, load_vars,
                  eval_vars, main_vars, master_vars, mpi_vars, history_vars,
                  process_vars, HARDWARE_DECODE>>

\* The work planner runs.
PlanWork ==
  /\ frame_pc = "plan"
  /\ work_items' = PlanWorkItems(video_metadata,
                                 frames_per_work_item(GLOBAL_BATCH_SIZE,
                                                      BATCHES_PER_WORK_ITEM))
  /\ frame_pc' = "pop_work"
  /\ UNCHANGED <<frame_others, work_item, current_frame, frame_writes, forward_passes,
                 data_blob, previous_pass>>

\* work_item = args.work_items[load_work_entry.work_item_index];
\* current_frame = work_item.start_frame
LoadWorkItem ==
  /\ frame_pc = "pop_work"
  /\ \E w \in 1 .. Len(work_items) :
       /\ work_item' = work_items[w]
       /\ current_frame' = work_items[w].start_frame
  /\ frame_pc' = "decode"
  /\ UNCHANGED <<frame_others, work_items, frame_writes, forward_passes, data_blob,
                 previous_pass>>

\* One turn of while (current_frame < work_item.end_frame): the offset, its
\* assert, the frame stored at frame_buffer + frames_buffer_offset.
DecodeFrame ==
  /\ frame_pc = "decode"
  /\ current_frame < work_item.end_frame
  /\ LET metadata == video_metadata[work_item.video_index + 1]
         frames_buffer_offset ==
           frame_size(metadata) * (current_frame - work_item.start_frame)
         buffer_size == frame_buffer_size(video_metadata, GLOBAL_BATCH_SIZE,
                                          BATCHES_PER_WORK_ITEM)
     IN  IF frames_buffer_offset < buffer_size
         THEN /\ frame_writes' =
                   Append(frame_writes, StoreFrame(frames_buffer_offset, metadata))
              /\ current_frame' = current_frame + 1
              /\ UNCHANGED frame_pc
         ELSE /\ frame_pc' = "assert_failed"
              /\ UNCHANGED <<frame_writes, current_frame>>
  /\ UNCHANGED <<frame_others, work_items, work_item, forward_passes, data_blob,
                 previous_pass>>

\* Mutant: the blob keeps the shape it has.
ReshapeSkipped(shape, n) == shape

\* if (data_blob->shape(0) != n) data_blob->Reshape({n, 3, input_size, input_size})
Reshape(shape, n) == IF shape # n THEN n ELSE shape

\* The decode loop ends; the filled buffer reaches the evaluate thread, which
\* resizes data_blob for GLOBAL_BATCH_SIZE and sets current_frame =
\* work_item.start_frame.
EvalWorkItem ==
  /\ frame_pc = "decode"
  /\ ~(current_frame < work_item.end_frame)
  /\ data_blob' = Reshape(data_blob, GLOBAL_BATCH_SIZE)
  /\ current_frame' = work_item.start_frame
  /\ frame_pc' = "batches"
  /\ UNCHANGED <<frame_others, work_items, work_item, frame_writes, forward_passes,
                 previous_pass>>

\* Mutant: the loop takes a full batch whenever a frame is left.
FullBatchLeftAny(current, end_frame, batch_size) == current < end_frame

\* while (current_frame + GLOBAL_BATCH_SIZE < work_item.end_frame)
FullBatchLeft(current, end_frame, batch_size) == current + batch_size < end_frame

\* A full batch: GLOBAL_BATCH_SIZE frames from current_frame are written into
\* the thread's net_input blob of GLOBAL_BATCH_SIZE, net->Forward({&net_input}).
EvalFullBatch ==
  /\ frame_pc = "batches"
  /\ FullBatchLeft(current_frame, work_item.end_frame, GLOBAL_BATCH_SIZE)
  /\ forward_passes' = Append(forward_passes, [first |-> current_frame,
                                               frames |-> GLOBAL_BATCH_SIZE,
                                               epilogue |-> FALSE,
                                               net_input |-> GLOBAL_BATCH_SIZE,
                                               data_blob |-> data_blob])
  /\ current_frame' = current_frame + GLOBAL_BATCH_SIZE
  /\ UNCHANGED <<frame_others, work_items, work_item, frame_pc, frame_writes,
                 data_blob, previous_pass>>

\* The epilogue: if (current_frame < work_item.end_frame) data_blob is resized
\* for batch_size = end_frame - current_frame and one forward pass takes a new
\* net_input blob of batch_size frames.
EvalEpilogue ==
  /\ frame_pc = "batches"
  /\ ~FullBatchLeft(current_frame, work_item.end_frame, GLOBAL_BATCH_SIZE)
  /\ IF current_frame < work_item.end_frame
     THEN LET batch_size == work_item.end_frame - current_frame
          IN  /\ data_blob' = Reshape(data_blob, batch_size)
              /\ forward_passes' = Append(forward_passes, [first |-> current_frame,
                                                           frames |-> batch_size,
                                                           epilogue |-> TRUE,
                                                           net_input |-> batch_size,
                                                           data_blob |-> data_blob'])
              /\ current_frame' = current_frame + batch_size
     ELSE UNCHANGED <<forward_passes, current_frame, data_blob>>
  /\ frame_pc' = "done"
  /\ UNCHANGED <<frame_others, work_items, work_item, frame_writes, previous_pass>>

\* The buffer is released and the threads go on to another work item; the
\* histories start again for it.
EvalNextWorkItem ==
  /\ frame_pc = "done"
  /\ previous_pass' = IF forward_passes = <<>> THEN <<>>
                      ELSE <<forward_passes[Len(forward_passes)]>>
  /\ forward_passes' = <<>>
  /\ frame_writes' = <<>>
  /\ frame_pc' = "pop_work"
  /\ UNCHANGED <<frame_others, work_items, work_item, current_frame, data_blob>>

FrameNext ==
  \/ PlanWork
  \/ LoadWorkItem
  \/ DecodeFrame
  \/ EvalWorkItem
  \/ EvalFullBatch
  \/ EvalEpilogue
  \/ EvalNextWorkItem

FrameSpec == FrameInit /\ [][FrameNext]_vars

(***************************************************************************)
(* Vocabulary of the properties.                                           *)
(***************************************************************************)
\* How often x occurs in the queue q.
Count(q, x) == Cardinality({i \in 1 .. Len(q) : q[i] = x})

\* The sum over the nodes 0..n of the history h at work item w.
RECURSIVE NodeSum(_, _, _)
NodeSum(h, w, n) == IF n < 0 THEN 0 ELSE h[n][w] + NodeSum(h, w, n - 1)

TotalEvaluated(w) == NodeSum(evaluated, w, num_nodes - 1)
TotalPushed(w) == NodeSum(pushed, w, num_nodes - 1)

\* Every thread of every node has returned.
Terminated ==
  \A n \in Nodes :
    /\ main_pc[n] = "done"
    /\ \A l \in LoadThreads : load_pc[n][l] = "done"
    /\ \A g \in Gpus : eval_pc[n][g] = "done"

\* The main thread of n has left its dispatch (master) or request (remote) loop.
LeftDispatch(n) ==
  main_pc[n] \in {"load_sentinels", "join_load", "eval_sentinels", "join_eval",
                  "free", "done"}

\* The load thread l of n holds a buffer; the evaluate thread of g holds one.
LoadHolds(n, l) == load_pc[n][l] \in {"decode", "push"}
EvalHolds(n, g) == eval_pc[n][g] \in {"forward", "release"}

(***************************************************************************)
(* C1: in any complete run every work item index 0..N-1 is evaluated       *)
(* exactly once across the cluster: never twice (on one node or on two),   *)
(* and, once every thread has returned, none was skipped.                  *)
(***************************************************************************)
C1_EvaluatedExactlyOnce ==
  /\ \A w \in WorkItemIndices : TotalEvaluated(w) <= 1
  /\ Terminated => \A w \in WorkItemIndices : TotalEvaluated(w) = 1

\* A complete two-node run in which both nodes evaluated something.
C1_Witness ==
  /\ Terminated
  /\ num_nodes = 2
  /\ \E w \in WorkItemIndices : evaluated[0][w] = 1
  /\ \E w \in WorkItemIndices : evaluated[1][w] = 1

(***************************************************************************)
(* C2: on every node and for every GPU g, each of the                      *)
(* TASKS_IN_QUEUE_PER_GPU buffers of g is in exactly one place: in         *)
(* empty_load_buffers, held by one load thread, queued as a filled buffer  *)
(* in eval_work[g], or held by the evaluate thread of g; so the four       *)
(* counts sum to TASKS_IN_QUEUE_PER_GPU.                                   *)
(***************************************************************************)
FreeCount(n, g, b) ==
  Count(empty_load_buffers[n], [gpu_device_id |-> g, buffer_index |-> b])

LoadHeldCount(n, g, b) ==
  Cardinality({l \in LoadThreads :
                 /\ LoadHolds(n, l)
                 /\ buffer_entry[n][l].gpu_device_id = g
                 /\ buffer_entry[n][l].buffer_index = b})

QueuedCount(n, g, b) ==
  Cardinality({i \in 1 .. Len(eval_work[n][g]) :
                 /\ eval_work[n][g][i].work_item_index # SENTINEL
                 /\ eval_work[n][g][i].buffer_index = b})

EvalHeldCount(n, g, b) ==
  IF EvalHolds(n, g) /\ work_entry[n][g].buffer_index = b THEN 1 ELSE 0

\* The four counts of the buffers of GPU g, whatever their index.
FreeOfGpu(n, g) ==
  Cardinality({i \in 1 .. Len(empty_load_buffers[n]) :
                 empty_load_buffers[n][i].gpu_device_id = g})

LoadHeldOfGpu(n, g) ==
  Cardinality({l \in LoadThreads :
                 LoadHolds(n, l) /\ buffer_entry[n][l].gpu_device_id = g})

QueuedOfGpu(n, g) ==
  Cardinality({i \in 1 .. Len(eval_work[n][g]) :
                 eval_work[n][g][i].work_item_index # SENTINEL})

EvalHeldOfGpu(n, g) == IF EvalHolds(n, g) THEN 1 ELSE 0

C2_BufferConservation ==
  \A n \in Nodes : \A g \in Gpus :
    /\ \A b \in Buffers :
         FreeCount(n, g, b) + LoadHeldCount(n, g, b)
           + QueuedCount(n, g, b) + EvalHeldCount(n, g, b) = 1
    /\ FreeOfGpu(n, g) + LoadHeldOfGpu(n, g) + QueuedOfGpu(n, g) + EvalHeldOfGpu(n, g)
         = TASKS_IN_QUEUE_PER_GPU

\* Two buffers of one GPU in flight at once: one being filled, one being read.
C2_Witness ==
  \E n \in Nodes : \E g \in Gpus : \E b1, b2 \in Buffers :
    /\ b1 # b2
    /\ LoadHeldCount(n, g, b1) = 1
    /\ EvalHeldCount(n, g, b2) = 1

(***************************************************************************)
(* C4: across the cluster each index of 0..N-1 is pushed into a load_work  *)
(* queue at most once, exactly once when the run is complete, and nothing  *)
(* outside 0..N-1 (other than the sentinel) is ever pushed or sent.        *)
(***************************************************************************)
C4_PushedExactlyOnce ==
  /\ \A w \in WorkItemIndices : TotalPushed(w) <= 1
  /\ (\A n \in Nodes : LeftDispatch(n)) => \A w \in WorkItemIndices : TotalPushed(w) = 1
  /\ \A n \in Nodes :
       /\ \A i \in 1 .. Len(load_work[n]) :
            load_work[n][i] \in WorkItemIndices \cup {SENTINEL}
       /\ \A i \in 1 .. Len(reply_log[n]) :
            reply_log[n][i] \in WorkItemIndices \cup {SENTINEL}

\* Dispatch is over on two nodes and both nodes were given an index.
C4_Witness ==
  /\ num_nodes = 2
  /\ \A n \in Nodes : LeftDispatch(n)
  /\ \E w \in WorkItemIndices : pushed[0][w] = 1
  /\ \E w \in WorkItemIndices : pushed[1][w] = 1

(***************************************************************************)
(* C5: the master issues all indices 0..N-1 before any -1: a -1 has been   *)
(* sent only if next_work_item_to_allocate = N, a node is sent at most one *)
(* -1 and nothing after it, and when the master has left its loops every   *)
(* remote node has been sent its -1.                                       *)
(***************************************************************************)
C5_IndicesThenOneSentinel ==
  /\ \A r \in Remotes : \A i \in 1 .. Len(reply_log[r]) :
       reply_log[r][i] = SENTINEL =>
         /\ i = Len(reply_log[r])
         /\ next_work_item_to_allocate = Len(work_items)
  /\ LeftDispatch(0) =>
       /\ next_work_item_to_allocate = Len(work_items)
       /\ \A r \in Remotes :
            /\ Len(reply_log[r]) > 0
            /\ reply_log[r][Len(reply_log[r])] = SENTINEL

\* The master has returned from its loops after sending a remote node an
\* index and then the -1.
C5_Witness ==
  /\ LeftDispatch(0)
  /\ \E r \in Remotes :
       /\ Len(reply_log[r]) >= 2
       /\ reply_log[r][1] # SENTINEL

(***************************************************************************)
(* C6: every entry of eval_work[g] names a buffer that was popped from     *)
(* empty_load_buffers with gpu_device_id = g, and the evaluate thread that *)
(* pops it reads that buffer of GPU g.                                     *)
(***************************************************************************)
C6_BufferGpuAffinity ==
  \A n \in Nodes : \A g \in Gpus :
    /\ \A i \in 1 .. Len(eval_work[n][g]) :
         eval_work[n][g][i].work_item_index # SENTINEL =>
           eval_work[n][g][i].gpu_device_id = g
    /\ EvalHolds(n, g) =>
         /\ work_entry[n][g].gpu_device_id = g
         /\ EvalSourceBuffer(n, g) = <<g, work_entry[n][g].buffer_index>>

\* A filled buffer of the second GPU is queued while the first GPU's
\* evaluate thread holds one of its own.
C6_Witness ==
  \E n \in Nodes :
    /\ GPUS_PER_NODE = 2
    /\ Len(eval_work[n][1]) > 0
    /\ eval_work[n][1][1].work_item_index # SENTINEL
    /\ EvalHolds(n, 0)

(***************************************************************************)
(* C3: under fair scheduling every run terminates: every load thread and   *)
(* every evaluate thread pops a sentinel and exits, the master and every   *)
(* remote main thread leave their loops and return, and no thread stays    *)
(* blocked on a queue pop or a message receive.                            *)
(***************************************************************************)
C3_Termination == <>Terminated

\* A two-node run with work to do has terminated.
C3_Witness ==
  /\ Terminated
  /\ num_nodes = 2
  /\ Len(work_items) >= 2
  /\ \A n \in Nodes : load_work[n] = <<>> /\ replies[n] = <<>> /\ requests[n] = 0

(***************************************************************************)
(* C7: a filled buffer stays bound to its work item: while an entry {w, b} *)
(* is queued in eval_work[g] or held by the evaluate thread of g, buffer   *)
(* (g, b) holds the frames of w, and no step writes into (g, b) before the *)
(* evaluate thread has pushed it back into empty_load_buffers.             *)
(***************************************************************************)
C7_HoldsFramesOfItem ==
  \A n \in Nodes : \A g \in Gpus :
    /\ \A i \in 1 .. Len(eval_work[n][g]) :
         eval_work[n][g][i].work_item_index # SENTINEL =>
           gpu_frame_buffers[n][g][eval_work[n][g][i].buffer_index]
             = eval_work[n][g][i].work_item_index
    /\ EvalHolds(n, g) =>
         gpu_frame_buffers[n][EvalSourceBuffer(n, g)[1]][EvalSourceBuffer(n, g)[2]]
           = work_entry[n][g].work_item_index

C7_NoWriteWhileFilled ==
  \A n \in Nodes : \A g \in Gpus : \A b \in Buffers :
    (QueuedCount(n, g, b) > 0 \/ EvalHeldCount(n, g, b) > 0) =>
      gpu_frame_buffers'[n][g][b] = gpu_frame_buffers[n][g][b]

C7_FilledBufferIntact == []C7_HoldsFramesOfItem /\ [][C7_NoWriteWhileFilled]_vars

\* The evaluate thread reads one buffer of its GPU while a load thread is
\* decoding into another buffer of the same GPU.
C7_Witness ==
  \E n \in Nodes : \E g \in Gpus : \E l \in LoadThreads :
    /\ eval_pc[n][g] = "forward"
    /\ load_pc[n][l] = "decode"
    /\ buffer_entry[n][l].gpu_device_id = g

(***************************************************************************)
(* C8: on every node no sentinel is pushed before the node's last work     *)
(* item; then load_work gets exactly LOAD_WORKERS_PER_NODE sentinels and   *)
(* each eval_work[g] exactly one; every load thread and every evaluate     *)
(* thread consumes exactly one; and in every queue the sentinels are       *)
(* behind all real entries.                                                *)
(***************************************************************************)
LoadSentinelsSeen(n) ==
  Count(load_work[n], SENTINEL)
    + Cardinality({l \in LoadThreads : load_pc[n][l] = "done"})

EvalSentinelsSeen(n, g) ==
  Cardinality({i \in 1 .. Len(eval_work[n][g]) :
                 eval_work[n][g][i].work_item_index = SENTINEL})
    + (IF eval_pc[n][g] = "done" THEN 1 ELSE 0)

C8_SentinelPropagation ==
  \A n \in Nodes :
    /\ ~LeftDispatch(n) => LoadSentinelsSeen(n) = 0
    /\ LoadSentinelsSeen(n) <= LOAD_WORKERS_PER_NODE
    /\ main_pc[n] \in {"join_load", "eval_sentinels", "join_eval", "free", "done"}
         => LoadSentinelsSeen(n) = LOAD_WORKERS_PER_NODE
    /\ \A i, j \in 1 .. Len(load_work[n]) :
         (i < j /\ load_work[n][i] = SENTINEL) => load_work[n][j] = SENTINEL
    /\ main_pc[n] = "done" => load_work[n] = <<>>
    /\ \A g \in Gpus :
         /\ main_pc[n] \notin {"eval_sentinels", "join_eval", "free", "done"}
              => EvalSentinelsSeen(n, g) = 0
         /\ EvalSentinelsSeen(n, g) <= 1
         /\ main_pc[n] \in {"join_eval", "free", "done"} => EvalSentinelsSeen(n, g) = 1
         /\ \A i \in 1 .. Len(eval_work[n][g]) :
              eval_work[n][g][i].work_item_index = SENTINEL => i = Len(eval_work[n][g])
         /\ main_pc[n] = "done" => eval_work[n][g] = <<>>

\* Two load sentinels are queued behind a work item not yet popped.
C8_Witness ==
  \E n \in Nodes :
    /\ LOAD_WORKERS_PER_NODE = 2
    /\ Len(load_work[n]) = 3
    /\ load_work[n][1] # SENTINEL
    /\ load_work[n][2] = SENTINEL

(***************************************************************************)
(* C9: a work item is pushed into a node's load_work, and a request is     *)
(* sent by a remote node, only when the backlog the node has just summed   *)
(* (load_work.size() plus every eval_work[g].size()) is below              *)
(* GPUS_PER_NODE * TASKS_IN_QUEUE_PER_GPU.                                 *)
(***************************************************************************)
C9_BelowMarkWhileIssuing ==
  \A n \in Nodes :
    main_pc[n] \in {"assign", "request", "await", "push"} =>
      local_work[n] < GPUS_PER_NODE * TASKS_IN_QUEUE_PER_GPU

C9_IssueStep ==
  \A n \in Nodes :
    (pushed'[n] # pushed[n] \/ requests'[n] > requests[n]) =>
      local_work[n] < GPUS_PER_NODE * TASKS_IN_QUEUE_PER_GPU

C9_IssuedOnlyBelowHighWater == []C9_BelowMarkWhileIssuing /\ [][C9_IssueStep]_vars

\* The master, its backlog at the mark, waits for a request instead of
\* self-assigning, while a remote node pushes the index it asked for.
C9_Witness ==
  /\ main_pc[0] = "recv"
  /\ local_work[0] >= HighWater
  /\ \E r \in Remotes : main_pc[r] = "push" /\ local_work[r] < HighWater

(***************************************************************************)
(* C10, as stated: a remote node receives -1 only when every work item it  *)
(* accepted has been processed.                                            *)
(***************************************************************************)
RECURSIVE Unprocessed(_, _)
Unprocessed(n, w) ==
  IF w < 0 THEN 0 ELSE (pushed[n][w] - evaluated[n][w]) + Unprocessed(n, w - 1)

ReceivesSentinel(r) == main_pc[r] = "await" /\ main_pc'[r] = "load_sentinels"

C10_SentinelOnlyWhenIdle ==
  [][\A r \in Remotes :
       ReceivesSentinel(r) => Unprocessed(r, Len(work_items) - 1) = 0]_vars

(***************************************************************************)
(* C10, amended: a remote node may receive -1 while work items it accepted *)
(* are still unprocessed; it receives -1 only after the master has issued  *)
(* every index and with a measured backlog below the high-water mark, and  *)
(* it has evaluated every work item it accepted when its main thread       *)
(* returns.                                                                *)
(***************************************************************************)
C10_RemoteFinishesItsItems ==
  \A r \in Remotes :
    main_pc[r] = "done" =>
      \A w \in WorkItemIndices : evaluated[r][w] = pushed[r][w]

C10_SentinelStep ==
  \A r \in Remotes :
    ReceivesSentinel(r) =>
      /\ next_work_item_to_allocate = Len(work_items)
      /\ local_work[r] < GPUS_PER_NODE * TASKS_IN_QUEUE_PER_GPU

C10_DrainsAfterSentinel ==
  []C10_RemoteFinishesItsItems /\ [][C10_SentinelStep]_vars

\* A remote node has just received -1 and still has an unprocessed work item.
C10_Witness ==
  \E r \in Remotes :
    /\ main_pc[r] = "load_sentinels"
    /\ loop_i[r] = 0
    /\ Unprocessed(r, Len(work_items) - 1) > 0

(***************************************************************************)
(* C16: on every node an eval sentinel is pushed only after every load     *)
(* thread of the node has exited, so no filled buffer is ever queued       *)
(* behind the sentinel of an eval_work[g], and when the evaluate thread of *)
(* g exits every buffer filled for g has been evaluated and handed back.   *)
(***************************************************************************)
C16_EvalSentinelsAfterLoadExit ==
  \A n \in Nodes :
    /\ main_pc[n] \in {"eval_sentinels", "join_eval", "free", "done"}
         => \A l \in LoadThreads : load_pc[n][l] = "done"
    /\ \A g \in Gpus :
         /\ EvalSentinelsSeen(n, g) > 0 => \A l \in LoadThreads : load_pc[n][l] = "done"
         /\ \A i, j \in 1 .. Len(eval_work[n][g]) :
              (i < j /\ eval_work[n][g][i].work_item_index = SENTINEL)
                => eval_work[n][g][j].work_item_index = SENTINEL
         /\ eval_pc[n][g] = "done" =>
              /\ QueuedOfGpu(n, g) = 0
              /\ LoadHeldOfGpu(n, g) = 0
              /\ FreeOfGpu(n, g) = TASKS_IN_QUEUE_PER_GPU
    /\ (\A g \in Gpus : eval_pc[n][g] = "done")
         => \A w \in WorkItemIndices : evaluated[n][w] = pushed[n][w]

\* Both load threads of a node have exited and the eval sentinel waits behind
\* a filled buffer that is not evaluated yet.
C16_Witness ==
  \E n \in Nodes : \E g \in Gpus :
    /\ LOAD_WORKERS_PER_NODE = 2
    /\ Len(eval_work[n][g]) >= 2
    /\ eval_work[n][g][1].work_item_index # SENTINEL
    /\ eval_work[n][g][Len(eval_work[n][g])].work_item_index = SENTINEL

(***************************************************************************)
(* C11, as stated: in the run of two nodes with one GPU each over videos   *)
(* of 8 and 6 frames in work items of 4 frames (4 work items), each node   *)
(* evaluates at least one work item and 4 are evaluated in total.          *)
(***************************************************************************)
EvaluatedBy(n) == Cardinality({w \in WorkItemIndices : evaluated[n][w] > 0})

RECURSIVE EvaluatedUpTo(_)
EvaluatedUpTo(w) == IF w < 0 THEN 0 ELSE TotalEvaluated(w) + EvaluatedUpTo(w - 1)

ItemsOf(v) == {i \in 1 .. Len(work_items) : work_items[i].video_index = v}

C13_FramesCoveredOnce ==
  frame_pc # "plan" =>
    /\ \A i \in 1 .. Len(work_items) :
         work_items[i].video_index \in 0 .. (Len(video_metadata) - 1)
    /\ \A v \in 0 .. (Len(video_metadata) - 1) :
         LET F == video_metadata[v + 1].frames
         IN  /\ \A i \in ItemsOf(v) :
                  /\ 0 <= work_items[i].start_frame
                  /\ work_items[i].start_frame < work_items[i].end_frame
                  /\ work_items[i].end_frame <= F
             /\ \A f \in 0 .. (F - 1) :
                  Cardinality({i \in ItemsOf(v) :
                                 /\ work_items[i].start_frame <= f
                                 /\ f < work_items[i].end_frame}) = 1
             /\ F = 0 => ItemsOf(v) = {}

\* The plan of a video without frames followed by one of several work items.
C13_Witness ==
  /\ frame_pc = "pop_work"
  /\ Len(video_metadata) = 2
  /\ video_metadata[1].frames = 0
  /\ Cardinality(ItemsOf(1)) >= 2

(***************************************************************************)
(* C14: the planner emits, video after video in index order, exactly       *)
(* ceil(frames / FRAMES_PER_WORK_ITEM) contiguous work items per video,    *)
(* each of 1 to FRAMES_PER_WORK_ITEM = GLOBAL_BATCH_SIZE x                 *)
(* BATCHES_PER_WORK_ITEM frames, and only the last work item of a video    *)
(* may be shorter; 10 frames in work items of 4 give [0,4), [4,8), [8,10). *)
(***************************************************************************)
Ceil(a, b) == (a + b - 1) \div b

ItemFrames(i) == work_items[i].end_frame - work_items[i].start_frame

FirstOfVideo(i) ==
  i = 1 \/ work_items[i - 1].video_index # work_items[i].video_index

LastOfVideo(i) ==
  i = Len(work_items) \/ work_items[i + 1].video_index # work_items[i].video_index

C14_CeilContiguousItems ==
  /\ PlanWorkItems(<<[frames |-> 10, width |-> 2, height |-> 2]>>,
                   frames_per_work_item(2, 2))
       = <<[video_index |-> 0, start_frame |-> 0, end_frame |-> 4],
           [video_index |-> 0, start_frame |-> 4, end_frame |-> 8],
           [video_index |-> 0, start_frame |-> 8, end_frame |-> 10]>>
  /\ frame_pc # "plan" =>
       LET S == GLOBAL_BATCH_SIZE * BATCHES_PER_WORK_ITEM
       IN  /\ \A v \in 0 .. (Len(video_metadata) - 1) :
                Cardinality(ItemsOf(v)) = Ceil(video_metadata[v + 1].frames, S)
           /\ \A i \in 1 .. Len(work_items) :
                /\ 1 <= ItemFrames(i)
                /\ ItemFrames(i) <= S
                /\ ItemFrames(i) < S => LastOfVideo(i)
                /\ FirstOfVideo(i) => work_items[i].start_frame = 0
                /\ ~FirstOfVideo(i) =>
                     /\ work_items[i].start_frame = work_items[i - 1].end_frame
                     /\ work_items[i - 1].video_index < work_items[i].video_index
                          \/ work_items[i - 1].video_index = work_items[i].video_index
                /\ i > 1 => work_items[i - 1].video_index <= work_items[i].video_index

\* The plan of a video whose last work item is short, behind two full ones of
\* two batches each.
C14_Witness ==
  /\ frame_pc = "pop_work"
  /\ BATCHES_PER_WORK_ITEM = 2
  /\ Cardinality(ItemsOf(0)) = 3
  /\ ItemFrames(2) = GLOBAL_BATCH_SIZE * BATCHES_PER_WORK_ITEM
  /\ ItemFrames(3) < GLOBAL_BATCH_SIZE * BATCHES_PER_WORK_ITEM

(***************************************************************************)
(* C12: a work item of N = end_frame - start_frame frames is evaluated in  *)
(* floor(N / B) forward passes of exactly B = GLOBAL_BATCH_SIZE frames     *)
(* followed by one pass of N mod B frames when N mod B > 0 and none        *)
(* otherwise; every frame of [start_frame, end_frame) is in exactly one    *)
(* pass, so no frame is padded, dropped or evaluated twice.                *)
(***************************************************************************)
RECURSIVE PassedBefore(_)
PassedBefore(i) == IF i <= 1 THEN 0 ELSE forward_passes[i - 1].frames + PassedBefore(i - 1)

C12_BatchesCoverItemOnce ==
  /\ \A i \in 1 .. Len(forward_passes) :
       /\ forward_passes[i].frames >= 1
       /\ forward_passes[i].first = work_item.start_frame + PassedBefore(i)
       /\ forward_passes[i].first + forward_passes[i].frames <= work_item.end_frame
  /\ frame_pc = "done" =>
       LET N == work_item.end_frame - work_item.start_frame
           B == GLOBAL_BATCH_SIZE
       IN  /\ Len(forward_passes) = (N \div B) + (IF N % B > 0 THEN 1 ELSE 0)
           /\ \A i \in 1 .. (N \div B) : forward_passes[i].frames = B
           /\ N % B > 0 => forward_passes[Len(forward_passes)].frames = N % B
           /\ \A f \in work_item.start_frame .. (work_item.end_frame - 1) :
                Cardinality({i \in 1 .. Len(forward_passes) :
                               /\ forward_passes[i].first <= f
                               /\ f < forward_passes[i].first + forward_passes[i].frames})
                  = 1

\* A work item was evaluated in one full pass and one short pass.
C12_Witness ==
  /\ frame_pc = "done"
  /\ GLOBAL_BATCH_SIZE >= 2
  /\ Len(forward_passes) = 2
  /\ forward_passes[1].frames = GLOBAL_BATCH_SIZE
  /\ forward_passes[2].frames < GLOBAL_BATCH_SIZE

(***************************************************************************)
(* C20: when all videos have the width and height of video 0, the load     *)
(* thread's assert(frames_buffer_offset < buffer_size) holds for every     *)
(* frame of every work item: a work item has at most FRAMES_PER_WORK_ITEM  *)
(* frames and a buffer is frame_size x FRAMES_PER_WORK_ITEM bytes.         *)
(***************************************************************************)
SameFrameAsFirst ==
  \A v \in 1 .. Len(video_metadata) :
    /\ video_metadata[v].width = video_metadata[1].width
    /\ video_metadata[v].height = video_metadata[1].height

C20_OffsetAssertHolds ==
  SameFrameAsFirst =>
    /\ frame_pc # "assert_failed"
    /\ (frame_pc = "decode" /\ current_frame < work_item.end_frame) =>
         frame_size(video_metadata[1]) * (current_frame - work_item.start_frame)
           < frame_size(video_metadata[1]) * GLOBAL_BATCH_SIZE * BATCHES_PER_WORK_ITEM

\* The last frame of a full work item of the second of two videos with the
\* same frame is stored.
C20_Witness ==
  /\ SameFrameAsFirst
  /\ Len(video_metadata) = 2
  /\ work_item.video_index = 1
  /\ frame_pc = "decode"
  /\ Len(frame_writes) = GLOBAL_BATCH_SIZE * BATCHES_PER_WORK_ITEM
  /\ Len(frame_writes) >= 2

(***************************************************************************)
(* C19: when all videos have the width and height of video 0, every frame  *)
(* a load thread stores lies inside the buffer and inside its own slot:    *)
(* frame k of a work item is written within                                *)
(* [frame_size x k, frame_size x (k+1)), and frame_size x (k+1) <=         *)
(* frame_size x FRAMES_PER_WORK_ITEM, with hardware decode and with        *)
(* software decode alike.                                                  *)
(***************************************************************************)
C19_FramesInsideSlots ==
  SameFrameAsFirst =>
    \A i \in 1 .. Len(frame_writes) :
      LET fs == frame_size(video_metadata[1])
          k == i - 1
      IN  /\ fs * k <= frame_writes[i].lo
          /\ frame_writes[i].hi <= fs * (k + 1)
          /\ fs * (k + 1) <= fs * GLOBAL_BATCH_SIZE * BATCHES_PER_WORK_ITEM

(***************************************************************************)
(* C17: if the processed file of at least one input video is missing at    *)
(* startup, the master and only the master runs the preprocessor for every *)
(* such video, no node starts load or evaluate threads or dispatches a     *)
(* work item in that run, and the run exits with code 0.                   *)
(***************************************************************************)
\* Only the preprocessor writes processed files: a file was missing at
\* startup if it still is or if the preprocessor ran for it.
MissingAtStartup(v) ==
  ~processed_files[v] \/ \E n \in Nodes : <<n, v>> \in preprocessed_by

Dispatching(n) ==
  main_pc[n] \in {"check", "sum", "assign", "recv", "send", "s_recv", "s_send",
                  "request", "await", "push"}

C17_MissingFileOnlyPreprocesses ==
  (/\ ~argv.help
   /\ argv.video_paths_file
   /\ \E v \in 1 .. Len(video_metadata) : MissingAtStartup(v)) =>
    /\ \A n \in Nodes : \A v \in 1 .. Len(video_metadata) :
         <<n, v>> \in preprocessed_by => is_master(n)
    /\ \A n \in Nodes :
         /\ ~threads_created[n]
         /\ ~Dispatching(n)
         /\ \A w \in WorkItemIndices : pushed[n][w] = 0
         /\ main_pc[n] = "done" => exit_code[n] = <<0>>
    /\ main_pc[0] = "done" =>
         \A v \in 1 .. Len(video_metadata) :
           MissingAtStartup(v) => <<0, v>> \in preprocessed_by

(***************************************************************************)
(* C18, as stated: the program exits with code 1 when --help is given and  *)
(* when the required option --video_paths_file is missing, and with code 0 *)
(* when a run completes; in the two exit-1 cases there is no MPI startup,  *)
(* no worker thread and no dispatch.                                       *)
(***************************************************************************)
NothingStarted(n) ==
  /\ ~mpi_started[n]
  /\ ~threads_created[n]
  /\ ~Dispatching(n)
  /\ \A w \in WorkItemIndices : pushed[n][w] = 0

C18_ExitOneOnHelpOrMissingOption ==
  \A n \in Nodes :
    /\ (argv.help \/ ~argv.video_paths_file) =>
         /\ NothingStarted(n)
         /\ main_pc[n] # "parse" => (main_pc[n] = "done" /\ exit_code[n] = <<1>>)
    /\ (~argv.help /\ argv.video_paths_file /\ main_pc[n] = "done") =>
         exit_code[n] = <<0>>

(***************************************************************************)
(* C18, amended: the program exits with code 1 when --help is given, with  *)
(* or without --video_paths_file; when --video_paths_file is missing and   *)
(* --help is not given the required_option exception leaves main and the   *)
(* process is terminated without main returning a code; in both cases      *)
(* there is no MPI startup, no worker thread and no dispatch; a run that   *)
(* completes exits with code 0.                                            *)
(***************************************************************************)
C18_ExitOneOnHelp ==
  \A n \in Nodes :
    /\ argv.help =>
         /\ NothingStarted(n)
         /\ main_pc[n] # "parse" => (main_pc[n] = "done" /\ exit_code[n] = <<1>>)
    /\ (~argv.help /\ ~argv.video_paths_file) =>
         /\ NothingStarted(n)
         /\ main_pc[n] # "parse" => (main_pc[n] = "terminated" /\ exit_code[n] = <<>>)
    /\ (~argv.help /\ argv.video_paths_file) =>
         /\ main_pc[n] # "terminated"
         /\ main_pc[n] = "done" => exit_code[n] = <<0>>
    /\ main_pc[n] = "done" <=> exit_code[n] # <<>>

\* Both processes of a run with --help and --video_paths_file have returned 1.
C18_Witness ==
  /\ num_nodes = 2
  /\ argv.help
  /\ argv.video_paths_file
  /\ \A n \in Nodes : main_pc[n] = "done" /\ exit_code[n] = <<1>>

(***************************************************************************)
(* C21: while next_work_item_to_allocate < N the master serves its own     *)
(* node first: it receives a request and answers it with a work index only *)
(* in an iteration whose summed backlog (local_work) was at or above       *)
(* GPUS_PER_NODE * TASKS_IN_QUEUE_PER_GPU, and every iteration whose sum   *)
(* is below that mark self-assigns the next index instead of receiving.    *)
(***************************************************************************)
C21_ServingAtOrAboveMark ==
  /\ main_pc[0] \in {"recv", "send"} => local_work[0] >= HighWater
  /\ main_pc[0] \in {"recv", "assign"} => next_work_item_to_allocate < Len(work_items)
  /\ main_pc[0] = "send" => next_item[0] \in WorkItemIndices

\* The step that ends the sum of an iteration, and the step that follows it.
C21_IterationStep ==
  /\ (main_pc[0] = "sum" /\ main_pc'[0] # "sum") =>
       LET backlog == local_work[0] + Size(eval_work[0][loop_i[0]])
       IN  /\ backlog < HighWater => main_pc'[0] = "assign"
           /\ backlog >= HighWater => main_pc'[0] # "assign"
  /\ (main_pc[0] = "assign" /\ main_pc'[0] # "assign") =>
       /\ pushed'[0][next_work_item_to_allocate] = pushed[0][next_work_item_to_allocate] + 1
       /\ requests' = requests
       /\ reply_log' = reply_log
  /\ (\E r \in Remotes : reply_log'[r] # reply_log[r]) /\ main_pc[0] = "send" =>
       local_work[0] >= HighWater

C21_MasterPriority == []C21_ServingAtOrAboveMark /\ [][C21_IterationStep]_vars

\* The master has taken work item 0 for itself and, its backlog at the mark,
\* is about to answer a remote request with a work index.
C21_Witness ==
  /\ main_pc[0] = "send"
  /\ next_item[0] \in WorkItemIndices
  /\ local_work[0] >= HighWater
  /\ pushed[0][0] = 1

(***************************************************************************)
(* C24: at every forward pass the batch dimension of the net's input blob  *)
(* "data" equals the number of frames of the pass: GLOBAL_BATCH_SIZE for   *)
(* each pass of the full-batch loop, also for the first pass of a work     *)
(* item that follows one ending in a short batch, and the short batch size *)
(* for the epilogue pass. The blob handed to Forward has the same size.    *)
(***************************************************************************)
C24_BlobMatchesPass ==
  /\ \A i \in 1 .. Len(forward_passes) :
       LET pass == forward_passes[i]
       IN  /\ pass.data_blob = pass.frames
           /\ pass.net_input = pass.frames
           /\ ~pass.epilogue => pass.data_blob = GLOBAL_BATCH_SIZE
           /\ pass.epilogue =>
                /\ i = Len(forward_passes)
                /\ pass.data_blob = work_item.end_frame - pass.first
  /\ frame_pc = "batches" => data_blob = GLOBAL_BATCH_SIZE

\* The work item before ended in a short batch; this one had a pass of the
\* full-batch loop first and a short epilogue pass after it.
C24_Witness ==
  /\ previous_pass # <<>>
  /\ previous_pass[1].epilogue
  /\ previous_pass[1].data_blob < GLOBAL_BATCH_SIZE
  /\ frame_pc = "done"
  /\ Len(forward_passes) = 2
  /\ ~forward_passes[1].epilogue
  /\ forward_passes[1].data_blob = GLOBAL_BATCH_SIZE
  /\ forward_passes[2].epilogue
  /\ forward_passes[2].data_blob < GLOBAL_BATCH_SIZE

(***************************************************************************)
(* C22: in a run of a single node (num_nodes = 1) the master never         *)
(* receives or sends a message: it self-assigns all N work items to its    *)
(* own load_work, polls again without blocking while its backlog is        *)
(* saturated, and its sentinel-reply loop runs zero times.                 *)
(***************************************************************************)
C22_NoMessages ==
  num_nodes = 1 =>
    /\ main_pc[0] \notin {"recv", "send", "s_recv", "s_send"}
    /\ requests[0] = 0 /\ replies[0] = <<>> /\ reply_log[0] = <<>>
    /\ workers_done <= 1
    /\ \A w \in WorkItemIndices :
         pushed[0][w] = (IF w < next_work_item_to_allocate THEN 1 ELSE 0)
    /\ LeftDispatch(0) =>
         /\ next_work_item_to_allocate = Len(work_items)
         /\ workers_done = 1

\* A saturated sum leads straight back to the top of the loop, where the next
\* poll can always be taken; nothing is queued or sent on the way.
C22_SaturatedStep ==
  (num_nodes = 1 /\ main_pc[0] = "sum" /\ main_pc'[0] # "sum") =>
    LET backlog == local_work[0] + Size(eval_work[0][loop_i[0]])
    IN  /\ backlog >= HighWater =>
             /\ main_pc'[0] = "check"
             /\ UNCHANGED <<queue_vars, mpi_vars, next_work_item_to_allocate>>
        /\ backlog < HighWater => main_pc'[0] = "assign"

C22_SingleNodeNeverMessages == []C22_NoMessages /\ [][C22_SaturatedStep]_vars

\* The single node has taken a work item, has another one left to issue and
\* finds its backlog at the mark.
C22_Witness ==
  /\ num_nodes = 1
  /\ main_pc[0] = "sum"
  /\ loop_i[0] + 1 = GPUS_PER_NODE
  /\ local_work[0] + Size(eval_work[0][loop_i[0]]) >= HighWater
  /\ next_work_item_to_allocate >= 1
  /\ next_work_item_to_allocate < Len(work_items)

(***************************************************************************)
(* C23: between the master and each remote node the messages alternate     *)
(* request, reply: a remote node has at most one unanswered request, the   *)
(* master replies only to the node whose request it has just received, the *)
(* replies sent to a node never outnumber the requests received from it,   *)
(* and every request is eventually answered with a fresh index or -1.      *)
(***************************************************************************)
\* The master has received a request of r and not replied to it yet.
Answering(r) == main_pc[0] \in {"send", "s_send"} /\ status_source = r

C23_OneUnanswered ==
  /\ main_pc[0] \in {"send", "s_send"} => status_source \in Remotes
  /\ \A r \in Remotes :
       /\ requests[r] + (IF Answering(r) THEN 1 ELSE 0) + Len(replies[r])
            = (IF main_pc[r] = "await" THEN 1 ELSE 0)
       /\ Len(reply_log[r]) <= request_log[r]
       /\ request_log[r] = Len(reply_log[r]) + (IF Answering(r) THEN 1 ELSE 0)
       /\ \A i \in 1 .. Len(reply_log[r]) :
            /\ reply_log[r][i] \in WorkItemIndices \cup {SENTINEL}
            /\ reply_log[r][i] # SENTINEL =>
                 /\ pushed[0][reply_log[r][i]] = 0
                 /\ \A q \in Remotes : \A j \in 1 .. Len(reply_log[q]) :
                      reply_log[q][j] = reply_log[r][i] => (q = r /\ j = i)

C23_MessageStep ==
  \A r \in Remotes :
    /\ reply_log'[r] # reply_log[r] =>
         /\ Answering(r)
         /\ Len(reply_log'[r]) = request_log[r]
         /\ replies'[r] = <<reply_log'[r][Len(reply_log'[r])]>>
    /\ requests'[r] > requests[r] =>
         /\ requests[r] = 0 /\ replies[r] = <<>> /\ ~Answering(r)
         /\ request_log[r] = Len(reply_log[r])
    /\ request_log'[r] # request_log[r] =>
         /\ requests[r] = 1 /\ requests'[r] = 0
         /\ status_source' = r

C23_Answered ==
  \A r \in 1 .. (MaxNodes - 1) :
    (r \in Remotes /\ main_pc[r] = "await")
      ~> (r \in Remotes /\ main_pc[r] \in {"push", "load_sentinels"})

C23_RequestReplyAlternate ==
  /\ []C23_OneUnanswered
  /\ [][C23_MessageStep]_vars
  /\ C23_Answered

\* A remote node made two requests: the first was answered with a work index
\* and the second with -1.
C23_Witness ==
  \E r \in Remotes :
    /\ request_log[r] = 2
    /\ Len(reply_log[r]) = 2
    /\ reply_log[r][1] \in WorkItemIndices
    /\ reply_log[r][2] = SENTINEL
    /\ main_pc[r] = "load_sentinels"

(***************************************************************************)
(* C25: on every node the work items accepted (pushed into its load_work)  *)
(* and not yet finished evaluating never number more than                  *)
(* GPUS_PER_NODE * TASKS_IN_QUEUE_PER_GPU + LOAD_WORKERS_PER_NODE          *)
(* + GPUS_PER_NODE, however fast or slow the load and evaluate threads.    *)
(***************************************************************************)
\* The work items of n that are queued or in the hands of a thread.
InFlight(n) ==
  (Len(load_work[n]) - Count(load_work[n], SENTINEL))
    + Cardinality({l \in LoadThreads : load_pc[n][l] \in {"pop_buffer", "decode", "push"}})
    + Cardinality({<<g, i>> \in Gpus \X (1 .. TASKS_IN_QUEUE_PER_GPU + 1) :
                     /\ i <= Len(eval_work[n][g])
                     /\ eval_work[n][g][i].work_item_index # SENTINEL})
    + Cardinality({g \in Gpus : eval_pc[n][g] \in {"forward", "release"}})

C25_InFlightBounded ==
  \A n \in Nodes :
    /\ Unprocessed(n, Len(work_items) - 1)
         <= GPUS_PER_NODE * TASKS_IN_QUEUE_PER_GPU + LOAD_WORKERS_PER_NODE + GPUS_PER_NODE
    /\ InFlight(n)
         <= GPUS_PER_NODE * TASKS_IN_QUEUE_PER_GPU + LOAD_WORKERS_PER_NODE + GPUS_PER_NODE
    /\ Unprocessed(n, Len(work_items) - 1) <= InFlight(n)

\* A node has as many unfinished work items as the bound allows, which is
\* fewer than the run has: one queued, one with the load thread waiting for a
\* buffer, one being evaluated.
C25_Witness ==
  \E n \in Nodes :
    /\ Unprocessed(n, Len(work_items) - 1)
         = GPUS_PER_NODE * TASKS_IN_QUEUE_PER_GPU + LOAD_WORKERS_PER_NODE + GPUS_PER_NODE
    /\ Unprocessed(n, Len(work_items) - 1) < Len(work_items)
    /\ Len(load_work[n]) = 1
    /\ eval_pc[n][0] = "forward"

(***************************************************************************)
(* C26: in every reachable state a node's load_work holds at most          *)
(* GPUS_PER_NODE * TASKS_IN_QUEUE_PER_GPU entries that are not sentinels   *)
(* and each eval_work[g] at most TASKS_IN_QUEUE_PER_GPU, so queues of the  *)
(* stated minimum capacities never block a producer of real work.          *)
(***************************************************************************)
\* The sentinels waiting in eval_work[n][g].
EvalSentinelsQueued(n, g) ==
  Cardinality({i \in 1 .. Len(eval_work[n][g]) :
                 eval_work[n][g][i].work_item_index = SENTINEL})

\* The entries of load_work[n] and of eval_work[n][g] that are work items.
RealLoadWork(n) == Len(load_work[n]) - Count(load_work[n], SENTINEL)
RealEvalWork(n, g) == Len(eval_work[n][g]) - EvalSentinelsQueued(n, g)

C26_WithinCapacity ==
  \A n \in Nodes :
    /\ RealLoadWork(n) <= GPUS_PER_NODE * TASKS_IN_QUEUE_PER_GPU
    /\ main_pc[n] \in {"assign", "push"} =>
         RealLoadWork(n) < GPUS_PER_NODE * TASKS_IN_QUEUE_PER_GPU
    /\ \A g \in Gpus :
         /\ RealEvalWork(n, g) <= TASKS_IN_QUEUE_PER_GPU
         /\ \A l \in LoadThreads :
              (load_pc[n][l] = "push" /\ LoadTargetQueue(n, l) = g) =>
                RealEvalWork(n, g) < TASKS_IN_QUEUE_PER_GPU

\* Both queues of a node are full of work items at once, with a further work
\* item still to be issued.
C26_Witness ==
  \E n \in Nodes :
    /\ RealLoadWork(n) = GPUS_PER_NODE * TASKS_IN_QUEUE_PER_GPU
    /\ \E g \in Gpus : RealEvalWork(n, g) = TASKS_IN_QUEUE_PER_GPU
    /\ next_work_item_to_allocate < Len(work_items)

(***************************************************************************)
(* C27: the buffers of a node are deallocated only after every load thread *)
(* and every evaluate thread of the node has exited, and at that moment    *)
(* all GPUS_PER_NODE * TASKS_IN_QUEUE_PER_GPU buffer identities are back   *)
(* in empty_load_buffers: no buffer is held by a thread or queued in an    *)
(* eval_work when it is freed.                                             *)
(***************************************************************************)
C27_FreedAfterAllExited ==
  \A n \in Nodes :
    main_pc[n] \in {"free", "done"} =>
      /\ \A l \in LoadThreads : load_pc[n][l] = "done" /\ buffer_entry[n][l] = NoEntry
      /\ \A g \in Gpus : eval_pc[n][g] = "done" /\ eval_work[n][g] = <<>>
      /\ Len(empty_load_buffers[n]) = GPUS_PER_NODE * TASKS_IN_QUEUE_PER_GPU
      /\ \A g \in Gpus : \A b \in Buffers :
           /\ FreeCount(n, g, b) = 1
           /\ LoadHeldCount(n, g, b) = 0
           /\ QueuedCount(n, g, b) = 0
           /\ EvalHeldCount(n, g, b) = 0

\* A node that evaluated a work item, with more than one buffer, is about to
\* free its buffers.
C27_Witness ==
  \E n \in Nodes :
    /\ main_pc[n] = "free"
    /\ GPUS_PER_NODE * TASKS_IN_QUEUE_PER_GPU >= 2
    /\ \E w \in WorkItemIndices : evaluated[n][w] = 1
    /\ Len(empty_load_buffers[n]) = GPUS_PER_NODE * TASKS_IN_QUEUE_PER_GPU

====
